---- MODULE Spec2Model ----
(***************************************************************************)
(* Job lifecycle of the agent-planner service                              *)
(* (src/services/agent-planner/main.py).                                   *)
(*                                                                         *)
(* The request handlers (start_job, get_job_status, get_job_result) are    *)
(* coroutines without an await: the event loop runs one handler at a time. *)
(* Each job's worker (_run_generation_job) is a thread of its own, so its  *)
(* writes to the job record, one field per statement, interleave with the  *)
(* handlers.  get_job_result reads the status up to four times and is      *)
(* modelled read by read; get_job_status reads each field once.            *)
(*                                                                         *)
(* The job record's "message", "input_data" (other than the session id)    *)
(* and "created_at" fields are written but never read by anything modelled *)
(* here and are left out.                                                  *)
(***************************************************************************)
EXTENDS Integers, Sequences, FiniteSets, TLC

\* ---------------------------------------------------------------- bounds
MaxJobs == 2          \* job records created in one behaviour of Spec
MaxSyncJobs == 1      \* job records created in one behaviour of SpecSync
MaxRounds == 8        \* largest number of rounds a round configuration lists

\* session ids a start request may carry; "" is the falsy session id
Sessions == {"", "a"}

\* ids a poll or a fetch may ask for when at most limit jobs are created:
\* uuid4 values, the k-th created job gets id k, one more id is never created
JobIds(limit) == 1..(limit + 1)

\* Python's None
None == "None"

Min(a, b) == IF a <= b THEN a ELSE b

\* --------------------------------------------------------------- state
VARIABLES
    jobs_store,      \* main.py:68   job id -> job record (a sequence: id = index)
    session_to_job,  \* main.py:69   session id -> job id, 0: no entry
    workers,         \* one thread per job: its position, round and exception
    hpc,             \* position of the handler the event loop is running
    hjob,            \* job id of the request being handled
    resp,            \* response sent by the step just taken, NoResp if none
    polled,          \* history: job, progress and round the preceding request
                     \* returned if it was a poll, NoPoll if it was not
    firstReturned,   \* history: job id returned to the first start of a session
    returned,        \* history: job ids returned by start requests
    round_config,    \* program_crew.py:56   the rounds of the round definition file
    gpc,             \* position of a run of ProgramPlanningCrew.generate
    round_index,     \* index in round_config of the round generate is at
    conversation_log,       \* program_crew.py:58, 654
    all_synthesis_outputs,  \* program_crew.py:659
    decisions,       \* program_crew.py:59, 655
    crew_result,     \* what generate returned or raised, NoRet before
    call,            \* a call of one function of the crew or the curator
    ret              \* what the call returned or raised, NoRet before

\* the job registry and its handlers (main.py)
service == <<jobs_store, session_to_job, workers, hpc, hjob,
             resp, polled, firstReturned, returned>>

\* a run of the orchestrator (program_crew.py)
orchestrator == <<round_config, gpc, round_index, conversation_log,
                  all_synthesis_outputs, decisions, crew_result>>

\* the components the worker calls, which never touch the job registry
components == <<orchestrator, call, ret>>

vars == <<service, components>>

registry == <<jobs_store, session_to_job, workers>>
handler == <<hpc, hjob>>
history == <<polled, firstReturned, returned>>

Terminal == {"completed", "failed"}

\* main.py:238  existing_job["status"] in ["pending", "running"]
IsActiveMutant(status) == status = "pending"
IsActive(status) == status \in {"pending", "running"}

\* main.py:251-260  the record of a new job
NewJobMutant(session_id) ==
    [status |-> "running", progress |-> 10, current_round |-> 0,
     result |-> None, error |-> None, session_id |-> session_id]
NewJob(session_id) ==
    [status |-> "pending", progress |-> 0, current_round |-> 0,
     result |-> None, error |-> None, session_id |-> session_id]

\* main.py:265-267  the thread started for a new job
NewWorker == [pc |-> "set_running", round |-> 0, exc |-> None]

\* NoResp is the shape of every response: op is the request ("start",
\* "poll", "fetch"), code the HTTP status; for a start request sid is its
\* session id, existing the running job it found (0: none) and records the
\* number of job records before it
NoPoll == [job |-> 0, progress |-> -1, current_round |-> -1]

NoResp ==
    [op |-> "none", sid |-> "", job |-> 0, code |-> 0, job_id |-> 0,
     status |-> None, progress |-> -1, current_round |-> -1,
     error |-> None, body |-> None, existing |-> 0, records |-> 0]

\* schemas.py:230-232  JobStartResponse: job_id (alias jobId, either name is
\* accepted) and status are both required; a missing one is a
\* ValidationError, which the framework answers with 500
JobStartResponse(kw) ==
    IF ("job_id" \in DOMAIN kw \/ "jobId" \in DOMAIN kw) /\ "status" \in DOMAIN kw
    THEN [code |-> 200,
          job_id |-> IF "job_id" \in DOMAIN kw THEN kw.job_id ELSE kw.jobId,
          status |-> kw.status]
    ELSE [code |-> 500, job_id |-> 0, status |-> None]

\* what a call has returned before it returns
NoRet == [raised |-> None]

\* no call of a crew or curator function is made
NoCall == [fn |-> None]

\* no run of ProgramPlanningCrew.generate is under way
OrchestratorIdle ==
    /\ round_config = <<>>
    /\ gpc = "idle"
    /\ round_index = 0
    /\ conversation_log = <<>>
    /\ all_synthesis_outputs = <<>>
    /\ decisions = <<>>
    /\ crew_result = NoRet

\* main.py:68-69  the registry of a service that has just started
ServiceInit ==
    /\ jobs_store = <<>>
    /\ session_to_job = [s \in Sessions \ {""} |-> 0]
    /\ workers = <<>>
    /\ hpc = "idle"
    /\ hjob = 0
    /\ resp = NoResp
    /\ polled = NoPoll
    /\ firstReturned = [s \in Sessions |-> 0]
    /\ returned = {}

Init ==
    /\ ServiceInit
    /\ OrchestratorIdle
    /\ call = NoCall
    /\ ret = NoRet

\* ------------------------------------------------------------ start_job
\* main.py:234-238  the job a start request for session_id finds running
ExistingActive(session_id) ==
    IF /\ session_id # ""
       /\ session_to_job[session_id] # 0
       /\ session_to_job[session_id] \in DOMAIN jobs_store
       /\ IsActive(jobs_store[session_to_job[session_id]].status)
    THEN session_to_job[session_id]
    ELSE 0

\* main.py:243-249  the index after a start request that creates job_id
\* (the del of line 243 and the assignment of line 249 together overwrite)
IndexAfterStartMutant(session_id, job_id) ==
    IF session_id # "" /\ session_to_job[session_id] = 0
    THEN [session_to_job EXCEPT ![session_id] = job_id]
    ELSE session_to_job
IndexAfterStart(session_id, job_id) ==
    IF session_id # ""
    THEN [session_to_job EXCEPT ![session_id] = job_id]
    ELSE session_to_job

\* main.py:221-269  start_job, limit bounds the number of job records
start_job(session_id, limit) ==
    /\ hpc = "idle"
    /\ LET existing == ExistingActive(session_id)
           job_id == Len(jobs_store) + 1
           r == IF existing # 0
                THEN JobStartResponse([jobId |-> existing])
                ELSE JobStartResponse([job_id |-> job_id, status |-> "pending"])
       IN  /\ existing = 0 => job_id <= limit
           /\ IF existing # 0
              THEN UNCHANGED registry
              ELSE /\ session_to_job' = IndexAfterStart(session_id, job_id)
                   /\ jobs_store' = Append(jobs_store, NewJob(session_id))
                   /\ workers' = Append(workers, NewWorker)
           /\ resp' = [NoResp EXCEPT !.op = "start", !.sid = session_id,
                                     !.code = r.code, !.job_id = r.job_id,
                                     !.status = r.status, !.existing = existing,
                                     !.records = Len(jobs_store)]
           /\ firstReturned' =
                  IF firstReturned[session_id] = 0
                  THEN [firstReturned EXCEPT ![session_id] = r.job_id]
                  ELSE firstReturned
           /\ returned' = IF r.code = 200 THEN returned \cup {r.job_id} ELSE returned
    /\ polled' = NoPoll
    /\ UNCHANGED <<handler, components>>

\* -------------------------------------------------------- get_job_status
\* main.py:275, 293  job_id in jobs_store
JobKnownMutant(job_id) ==
    job_id \in DOMAIN jobs_store /\ jobs_store[job_id].status \notin Terminal
JobKnown(job_id) == job_id \in DOMAIN jobs_store

NotFound(op, job_id) ==
    [NoResp EXCEPT !.op = op, !.job = job_id, !.code = 404]

\* main.py:272-287  get_job_status: 404 for an unknown id, else the fields
\* of the job record
get_job_status(job_id) ==
    /\ hpc = "idle"
    /\ IF ~JobKnown(job_id)
       THEN /\ resp' = NotFound("poll", job_id)
            /\ polled' = NoPoll
       ELSE /\ resp' = [NoResp EXCEPT
                           !.op = "poll", !.job = job_id, !.code = 200,
                           !.job_id = job_id,
                           !.status = jobs_store[job_id].status,
                           !.progress = jobs_store[job_id].progress,
                           !.current_round = jobs_store[job_id].current_round,
                           !.error = jobs_store[job_id].error]
            /\ polled' = [job |-> job_id,
                          progress |-> jobs_store[job_id].progress,
                          current_round |-> jobs_store[job_id].current_round]
    /\ UNCHANGED <<registry, handler, firstReturned, returned, components>>

\* -------------------------------------------------------- get_job_result
\* main.py:293-298  unknown id: 404; known id: job["status"] == "pending"
FetchBegin(job_id) ==
    /\ hpc = "idle"
    /\ IF ~JobKnown(job_id)
       THEN /\ resp' = NotFound("fetch", job_id)
            /\ UNCHANGED <<handler, components>>
       ELSE /\ hpc' = IF jobs_store[job_id].status = "pending"
                      THEN "fetch_marker" ELSE "fetch_running"
            /\ hjob' = job_id
            /\ resp' = NoResp
    /\ polled' = NoPoll
    /\ UNCHANGED <<registry, firstReturned, returned, components>>

\* main.py:298  or job["status"] == "running"
FetchRunning ==
    /\ hpc = "fetch_running"
    /\ hpc' = IF jobs_store[hjob].status = "running"
              THEN "fetch_marker" ELSE "fetch_failed"
    /\ resp' = NoResp
    /\ UNCHANGED <<registry, hjob, history, components>>

\* main.py:299-302  the in-progress marker, job["status"] is read again
FetchMarker ==
    /\ hpc = "fetch_marker"
    /\ resp' = [NoResp EXCEPT !.op = "fetch", !.job = hjob, !.code = 202,
                              !.job_id = hjob,
                              !.status = jobs_store[hjob].status]
    /\ hpc' = "idle"
    /\ hjob' = 0
    /\ UNCHANGED <<registry, history, components>>

\* main.py:304  if job["status"] == "failed"
FetchFailed ==
    /\ hpc = "fetch_failed"
    /\ hpc' = IF jobs_store[hjob].status = "failed"
              THEN "fetch_error" ELSE "fetch_result"
    /\ resp' = NoResp
    /\ UNCHANGED <<registry, hjob, history, components>>

\* main.py:305  HTTPException(500, detail=job.get("error", "Job failed")):
\* the key is always present, the detail is the value stored under it
FetchError ==
    /\ hpc = "fetch_error"
    /\ resp' = [NoResp EXCEPT !.op = "fetch", !.job = hjob, !.code = 500,
                              !.status = "failed",
                              !.error = jobs_store[hjob].error]
    /\ hpc' = "idle"
    /\ hjob' = 0
    /\ UNCHANGED <<registry, history, components>>

\* main.py:307-308  result.model_dump(): on None an AttributeError, a 500
FetchResult ==
    /\ hpc = "fetch_result"
    /\ resp' = IF jobs_store[hjob].result = None
               THEN [NoResp EXCEPT !.op = "fetch", !.job = hjob, !.code = 500,
                                   !.status = "completed"]
               ELSE [NoResp EXCEPT !.op = "fetch", !.job = hjob, !.code = 200,
                                   !.status = "completed",
                                   !.body = jobs_store[hjob].result]
    /\ hpc' = "idle"
    /\ hjob' = 0
    /\ UNCHANGED <<registry, history, components>>

\* --------------------------------------------------- _run_generation_job
\* one statement of the worker of job j: field f of its record becomes v
\* and the worker moves to position pc
Write(j, f, v, pc) ==
    /\ jobs_store' = [jobs_store EXCEPT ![j][f] = v]
    /\ workers' = [workers EXCEPT ![j].pc = pc]
    /\ resp' = NoResp
    /\ UNCHANGED <<session_to_job, handler, history, components>>

\* an exception e sends the worker of job j to its except clause
Raise(j, e) ==
    /\ workers' = [workers EXCEPT ![j].pc = "fail_status", ![j].round = 0,
                                  ![j].exc = e]
    /\ resp' = NoResp
    /\ UNCHANGED <<jobs_store, session_to_job, handler, history, components>>

At(j, pc) == j \in DOMAIN workers /\ workers[j].pc = pc

\* main.py:114
SetRunning(j) == At(j, "set_running") /\ Write(j, "status", "running", "set_progress_5")

\* main.py:115
SetProgress5(j) == At(j, "set_progress_5") /\ Write(j, "progress", 5, "create_crew")

\* main.py:143  ProgramPlanningCrew(); program_crew.py:64-66 raises
\* ValueError when the API key is not in the environment
CreateCrew(j) ==
    /\ At(j, "create_crew")
    /\ \/ /\ workers' = [workers EXCEPT ![j].pc = "set_progress_10"]
          /\ resp' = NoResp
    /\ UNCHANGED <<jobs_store, session_to_job, handler, history, components>>
       \/ Raise(j, "ANTHROPIC_API_KEY environment variable not set")

\* main.py:148
SetProgress10(j) == At(j, "set_progress_10") /\ Write(j, "progress", 10, "generate_sync")

\* main.py:154  crew.generate_sync(...): ProgramPlanningCrew
\* (program_crew.py:38-770) defines generate and no generate_sync, the call
\* raises AttributeError
GenerateSyncMissing(j) ==
    /\ At(j, "generate_sync")
    /\ Raise(j, "'ProgramPlanningCrew' object has no attribute 'generate_sync'")

\* main.py:212  error_msg = f"Generation failed: {str(e)}"
ErrorMsg(e) == "Generation failed: " \o e

\* main.py:216
FailStatusMutant(j) == At(j, "fail_status") /\ Write(j, "status", "pending", "set_running")
FailStatus(j) == At(j, "fail_status") /\ Write(j, "status", "failed", "fail_error")

\* main.py:217
FailErrorMutant(j) == At(j, "fail_error") /\ Write(j, "error", None, "done")
FailError(j) == At(j, "fail_error") /\ Write(j, "error", ErrorMsg(workers[j].exc), "done")

Next ==
    \/ \E s \in Sessions : start_job(s, MaxJobs)
    \/ \E id \in JobIds(MaxJobs) : get_job_status(id)
    \/ \E id \in JobIds(MaxJobs) : FetchBegin(id)
    \/ FetchRunning
    \/ FetchMarker
    \/ FetchFailed
    \/ FetchError
    \/ \E j \in DOMAIN workers : SetRunning(j)
    \/ \E j \in DOMAIN workers : SetProgress5(j)
    \/ \E j \in DOMAIN workers : CreateCrew(j)
    \/ \E j \in DOMAIN workers : SetProgress10(j)
    \/ \E j \in DOMAIN workers : GenerateSyncMissing(j)
    \/ \E j \in DOMAIN workers : FailStatus(j)
    \/ \E j \in DOMAIN workers : FailError(j)

Spec == Init /\ [][Next]_vars

\* ------------------------------------- the worker past crew.generate_sync
\* main.py:127-128  progress reported for round round_num
RoundProgressMutant(round_num) == 10 + (round_num * 10)
RoundProgress(round_num) == Min(10 + (round_num * 10), 80)

\* main.py:166  jobs_store[job_id]["current_round"] = 7
PostProcessingRound == 7

\* generate_sync as the orchestrator is specified: the configured rounds run
\* in order, numbered from 1, on_progress is called with the round's number
\* when the round starts (calls after each agent of the round repeat the
\* same number and write the same values)
GenerateSyncEnter(j) ==
    /\ At(j, "generate_sync")
    /\ workers' = [workers EXCEPT ![j].pc = "cb_progress", ![j].round = 1]
    /\ resp' = NoResp
    /\ UNCHANGED <<jobs_store, session_to_job, handler, history, components>>

\* main.py:127-130  on_round_progress: jobs_store[job_id]["progress"]
OnRoundProgress(j) ==
    /\ At(j, "cb_progress")
    /\ Write(j, "progress", RoundProgress(workers[j].round), "cb_round")

\* main.py:131  on_round_progress: jobs_store[job_id]["current_round"]
OnRoundProgressRound(j) ==
    /\ At(j, "cb_round")
    /\ Write(j, "current_round", workers[j].round, "run_round")

\* the round runs (a failing round is recorded and skipped inside the
\* orchestrator); then another configured round follows or the round list
\* is exhausted and generate_sync returns
RunRound(j) ==
    /\ At(j, "run_round")
    /\ \/ /\ workers[j].round < MaxRounds
          /\ workers' = [workers EXCEPT ![j].pc = "cb_progress",
                                        ![j].round = @ + 1]
       \/ workers' = [workers EXCEPT ![j].pc = "post_progress", ![j].round = 0]
    /\ resp' = NoResp
    /\ UNCHANGED <<jobs_store, session_to_job, handler, history, components>>

\* an exception that escapes the orchestrator (section 7 (d))
GenerateSyncRaises(j) ==
    /\ At(j, "run_round")
    /\ Raise(j, "orchestration failed")

\* main.py:165
PostProgress(j) == At(j, "post_progress") /\ Write(j, "progress", 85, "post_round")

\* main.py:166
PostRound(j) ==
    At(j, "post_round") /\ Write(j, "current_round", PostProcessingRound, "curate")

\* main.py:175-202  KnowledgeCurator().curate(...) and the output object
Curate(j) ==
    /\ At(j, "curate")
    /\ \/ /\ workers' = [workers EXCEPT ![j].pc = "done_status"]
          /\ resp' = NoResp
          /\ UNCHANGED <<jobs_store, session_to_job, handler, history, components>>
       \/ Raise(j, "curation failed")

\* main.py:204
DoneStatusMutant(j) == At(j, "done_status") /\ Write(j, "result", "output", "done_progress")
DoneStatus(j) == At(j, "done_status") /\ Write(j, "status", "completed", "done_progress")

\* main.py:205
DoneProgress(j) == At(j, "done_progress") /\ Write(j, "progress", 100, "done_result")

\* main.py:207
DoneResult(j) == At(j, "done_result") /\ Write(j, "result", "output", "done")

NextSync ==
    \/ \E s \in Sessions : start_job(s, MaxSyncJobs)
    \/ \E id \in JobIds(MaxSyncJobs) : get_job_status(id)
    \/ \E id \in JobIds(MaxSyncJobs) : FetchBegin(id)
    \/ FetchRunning
    \/ FetchMarker
    \/ FetchFailed
    \/ FetchError
    \/ FetchResult
    \/ \E j \in DOMAIN workers : SetRunning(j)
    \/ \E j \in DOMAIN workers : SetProgress5(j)
    \/ \E j \in DOMAIN workers : CreateCrew(j)
    \/ \E j \in DOMAIN workers : SetProgress10(j)
    \/ \E j \in DOMAIN workers : GenerateSyncEnter(j)
    \/ \E j \in DOMAIN workers : OnRoundProgress(j)
    \/ \E j \in DOMAIN workers : OnRoundProgressRound(j)
    \/ \E j \in DOMAIN workers : RunRound(j)
    \/ \E j \in DOMAIN workers : GenerateSyncRaises(j)
    \/ \E j \in DOMAIN workers : PostProgress(j)
    \/ \E j \in DOMAIN workers : PostRound(j)
    \/ \E j \in DOMAIN workers : Curate(j)
    \/ \E j \in DOMAIN workers : DoneStatus(j)
    \/ \E j \in DOMAIN workers : DoneProgress(j)
    \/ \E j \in DOMAIN workers : DoneResult(j)
    \/ \E j \in DOMAIN workers : FailStatus(j)
    \/ \E j \in DOMAIN workers : FailError(j)

SpecSync == Init /\ [][NextSync]_vars

\* ------------------------------------------- LLM output texts and JSON
\* An LLM output is a sequence of pieces: a piece is prose (text with no
\* backtick and no bracket), the opening fence ```json, the bare fence ```
\* or the text of one JSON value.
Prose == [k |-> "prose"]
FenceJson == [k |-> "fence_json"]
Fence == [k |-> "fence"]
Json(v) == [k |-> "json", v |-> v]

\* the values json.loads returns: a dict is a record of its keys beside the
\* tag t, a list holds a sequence, a str a string, an int or float a number
\* (confidences and allocations are in hundredths), True/False and None
Str(s) == [t |-> "str", s |-> s]
Number(n) == [t |-> "num", n |-> n]
List(a) == [t |-> "list", a |-> a]
Bool(b) == [t |-> "bool", b |-> b]
JsonNull == [t |-> "null"]

\* a call returns a value or raises an exception
Returns(v) == [raised |-> None, value |-> v]
Raises(e) == [raised |-> e]

\* str.find(sub, start): the first piece from start on whose kind is in
\* kinds, -1 if there is none
find(text, kinds, start) ==
    LET hits == {i \in DOMAIN text : i >= start /\ text[i].k \in kinds}
    IN  IF hits = {} THEN -1 ELSE CHOOSE i \in hits : \A h \in hits : i <= h

\* program_crew.py:281, 311  synthesis.find("```json")
json_start(text) == find(text, {"fence_json"}, 1)

\* program_crew.py:282, 312  synthesis.find("```", json_start + 7): the
\* search starts behind the opening fence and stops at the next fence of
\* either kind ("```json" begins with "```")
json_end(text) ==
    find(text, {"fence", "fence_json"},
         IF json_start(text) = -1 THEN 1 ELSE json_start(text) + 1)

\* program_crew.py:284-285  synthesis[json_start + 7:json_end].strip()
json_str(text) == SubSeq(text, json_start(text) + 1, json_end(text) - 1)

\* json.loads: the text of exactly one JSON value parses, anything else
\* (nothing, prose, a value followed by more) is a JSONDecodeError
json_loads(s) ==
    IF Len(s) = 1 /\ s[1].k = "json"
    THEN Returns(s[1].v)
    ELSE Raises("JSONDecodeError")

\* dict.get(key, default)
Get(d, key, default) == IF key \in DOMAIN d THEN d[key] ELSE default

\* the keys of a dict
Keys(d) == DOMAIN d \ {"t"}

\* iterating a value (for x in v, list.extend(v)): a list gives its items, a
\* dict its keys and a str its characters, which are strs; other values are
\* not iterable.  No loop here gets past its first str item, so a dict or
\* a str is represented by one of its keys or by itself.
Iterate(v) ==
    CASE v.t = "list" -> Returns(v.a)
      [] v.t = "dict" ->
            Returns(IF Keys(v) = {} THEN <<>>
                    ELSE <<Str(CHOOSE key \in Keys(v) : TRUE)>>)
      [] v.t = "str" -> Returns(IF v.s = "" THEN <<>> ELSE <<v>>)
      [] OTHER -> Raises("TypeError")

\* ------------------------------------------ program_crew.py: extraction
\* program_crew.py:288-297  the Decision built from item d of "decisions"
DecisionOf(d, round_num) ==
    [round |-> round_num,
     topic |-> Get(d, "topic", Str("Unknown")),
     decision |-> Get(d, "decision", Str("")),
     rationale |-> Get(d, "rationale", Str("")),
     made_by |-> "Program Coordinator",
     endorsed_by |-> <<>>]

\* schemas.py:196-203  Decision: topic, decision and rationale are str
DecisionValid(x) ==
    x.topic.t = "str" /\ x.decision.t = "str" /\ x.rationale.t = "str"

\* program_crew.py:288-298  the loop over data.get("decisions", []): an
\* item that is no dict has no get (AttributeError); a field that is no str
\* fails Decision's validation, whose ValidationError is a ValueError, so
\* the except clause of line 298 ends the extraction with what it has
RECURSIVE DecisionsLoop(_, _, _, _)
DecisionsLoop(items, i, round_num, acc) ==
    IF i > Len(items) THEN Returns(acc)
    ELSE IF items[i].t # "dict" THEN Raises("AttributeError")
    ELSE IF ~DecisionValid(DecisionOf(items[i], round_num)) THEN Returns(acc)
    ELSE DecisionsLoop(items, i + 1, round_num,
                       Append(acc, DecisionOf(items[i], round_num)))

\* program_crew.py:276-302  _extract_decisions: JSONDecodeError and
\* ValueError are caught, AttributeError and TypeError are not
_extract_decisions(synthesis_output, round_num) ==
    IF json_start(synthesis_output) # -1 /\ json_end(synthesis_output) # -1
    THEN LET data == json_loads(json_str(synthesis_output))
         IN  IF data.raised # None THEN Returns(<<>>)
             ELSE IF data.value.t # "dict" THEN Raises("AttributeError")
             ELSE LET items == Iterate(Get(data.value, "decisions", List(<<>>)))
                  IN  IF items.raised # None THEN items
                      ELSE DecisionsLoop(items.value, 1, round_num, <<>>)
    ELSE Returns(<<>>)

\* program_crew.py:309-319  workstream_data: the items of every
\* synthesis's "workstream_updates", in round order; a synthesis without a
\* block or with invalid JSON is skipped
RECURSIVE WorkstreamData(_, _, _)
WorkstreamData(all_synthesis, i, acc) ==
    IF i > Len(all_synthesis) THEN Returns(acc)
    ELSE IF json_start(all_synthesis[i]) # -1 /\ json_end(all_synthesis[i]) # -1
    THEN LET data == json_loads(json_str(all_synthesis[i]))
         IN  IF data.raised # None
             THEN WorkstreamData(all_synthesis, i + 1, acc)
             ELSE IF data.value.t # "dict" THEN Raises("AttributeError")
             ELSE LET items == Iterate(Get(data.value, "workstream_updates",
                                           List(<<>>)))
                  IN  IF items.raised # None THEN items
                      ELSE WorkstreamData(all_synthesis, i + 1,
                                          acc \o items.value)
    ELSE WorkstreamData(all_synthesis, i + 1, acc)

\* program_crew.py:321-325  ws_by_name: the first item of each name, in
\* insertion order; an item that is no dict has no get, a name that is a
\* list or a dict is unhashable
WsByNameMutant(workstream_data, i, acc) ==
    IF i > Len(workstream_data) THEN Returns(acc)
    ELSE Returns([k \in 1..Len(workstream_data) |->
                     [name |-> Get(workstream_data[k], "name",
                                   Str("Unknown Workstream")),
                      ws |-> workstream_data[k]]])
RECURSIVE WsByName(_, _, _)
WsByName(workstream_data, i, acc) ==
    IF i > Len(workstream_data) THEN Returns(acc)
    ELSE IF workstream_data[i].t # "dict" THEN Raises("AttributeError")
    ELSE LET name == Get(workstream_data[i], "name", Str("Unknown Workstream"))
         IN  IF name.t \in {"list", "dict"} THEN Raises("TypeError")
             ELSE IF \E k \in DOMAIN acc : acc[k].name = name
             THEN WsByName(workstream_data, i + 1, acc)
             ELSE WsByName(workstream_data, i + 1,
                           Append(acc, [name |-> name,
                                        ws |-> workstream_data[i]]))

\* schemas.py:60-78  Deliverable and Workstream: name, description and
\* owner are str, start_month and end_month int
WorkstreamValid(name, ws) ==
    /\ name.t = "str"
    /\ Get(ws, "description", Str("")).t = "str"
    /\ Get(ws, "owner", Str("TBD")).t = "str"
    /\ Get(ws, "startMonth", Number(1)).t = "num"
    /\ Get(ws, "endMonth", Number(3)).t = "num"

\* program_crew.py:328-349  the Workstream of the i-th name; its id and its
\* deliverable's id are fresh uuid4 values
WorkstreamOfMutant(name, ws, i) ==
    [id |-> <<"workstream", i>>,
     name |-> name.s,
     description |-> Get(ws, "description", Str("")).s,
     owner |-> Get(ws, "owner", Str("TBD")).s,
     deliverables |->
         <<[id |-> <<"deliverable", i>>,
            name |-> name.s \o " - Initial Deliverable",
            description |-> Get(ws, "description", Str("")).s,
            workstream_id |-> <<"workstream", i>>,
            due_month |-> Get(ws, "endMonth", Number(3)).n,
            status |-> "not_started"]>>,
     dependencies |-> <<(<<"workstream", i + 1>>)>>,
     resource_requirements |-> <<>>,
     start_month |-> Get(ws, "startMonth", Number(1)).n,
     end_month |-> Get(ws, "endMonth", Number(3)).n,
     confidence |-> 80]
WorkstreamOf(name, ws, i) ==
    [id |-> <<"workstream", i>>,
     name |-> name.s,
     description |-> Get(ws, "description", Str("")).s,
     owner |-> Get(ws, "owner", Str("TBD")).s,
     deliverables |->
         <<[id |-> <<"deliverable", i>>,
            name |-> name.s \o " - Initial Deliverable",
            description |-> Get(ws, "description", Str("")).s,
            workstream_id |-> <<"workstream", i>>,
            due_month |-> Get(ws, "endMonth", Number(3)).n,
            status |-> "not_started"]>>,
     dependencies |-> <<>>,
     resource_requirements |-> <<>>,
     start_month |-> Get(ws, "startMonth", Number(1)).n,
     end_month |-> Get(ws, "endMonth", Number(3)).n,
     confidence |-> 80]

\* program_crew.py:327-350  the loop over ws_by_name.items(); it is outside
\* every try, a ValidationError leaves _extract_workstreams
RECURSIVE WorkstreamsLoop(_, _, _)
WorkstreamsLoop(ws_by_name, i, acc) ==
    IF i > Len(ws_by_name) THEN Returns(acc)
    ELSE IF ~WorkstreamValid(ws_by_name[i].name, ws_by_name[i].ws)
    THEN Raises("ValidationError")
    ELSE WorkstreamsLoop(ws_by_name, i + 1,
                         Append(acc, WorkstreamOf(ws_by_name[i].name,
                                                  ws_by_name[i].ws, i)))

\* the defaults as a plain chain: the third depends on the second only
DefaultWorkstreamsMutant(business_name) ==
    <<[id |-> <<"workstream", 1>>,
       name |-> "Strategy & Planning",
       description |-> "Define strategic objectives and create implementation roadmap for "
                           \o business_name,
       owner |-> "Strategy Lead",
       deliverables |->
           <<[id |-> <<"deliverable", 1>>, name |-> "Strategic Assessment",
              description |-> "Comprehensive analysis of current state and opportunities",
              workstream_id |-> <<"workstream", 1>>, due_month |-> 1,
              status |-> "not_started"]>>,
       dependencies |-> <<>>,
       resource_requirements |->
           <<[role |-> "Strategy Consultant", allocation |-> 100,
              cost_per_month |-> 15000]>>,
       start_month |-> 1, end_month |-> 3, confidence |-> 85],
      [id |-> <<"workstream", 2>>,
       name |-> "Capability Development",
       description |-> "Build required capabilities and skills",
       owner |-> "Capability Lead",
       deliverables |->
           <<[id |-> <<"deliverable", 2>>, name |-> "Capability Assessment",
              description |-> "Gap analysis of current vs required capabilities",
              workstream_id |-> <<"workstream", 2>>, due_month |-> 2,
              status |-> "not_started"]>>,
       dependencies |-> <<(<<"workstream", 1>>)>>,
       resource_requirements |->
           <<[role |-> "Capability Manager", allocation |-> 80,
              cost_per_month |-> 12000]>>,
       start_month |-> 2, end_month |-> 5, confidence |-> 80],
      [id |-> <<"workstream", 3>>,
       name |-> "Execution & Delivery",
       description |-> "Execute strategic initiatives and deliver outcomes",
       owner |-> "Delivery Lead",
       deliverables |->
           <<[id |-> <<"deliverable", 3>>, name |-> "Pilot Implementation",
              description |-> "Initial rollout to validate approach",
              workstream_id |-> <<"workstream", 3>>, due_month |-> 4,
              status |-> "not_started"]>>,
       dependencies |-> <<(<<"workstream", 2>>)>>,
       resource_requirements |->
           <<[role |-> "Project Manager", allocation |-> 100,
              cost_per_month |-> 13000]>>,
       start_month |-> 3, end_month |-> 6, confidence |-> 75]>>

\* program_crew.py:357-450  _generate_default_workstreams
_generate_default_workstreams(business_name) ==
    <<[id |-> <<"workstream", 1>>,
       name |-> "Strategy & Planning",
       description |-> "Define strategic objectives and create implementation roadmap for "
                           \o business_name,
       owner |-> "Strategy Lead",
       deliverables |->
           <<[id |-> <<"deliverable", 1>>, name |-> "Strategic Assessment",
              description |-> "Comprehensive analysis of current state and opportunities",
              workstream_id |-> <<"workstream", 1>>, due_month |-> 1,
              status |-> "not_started"]>>,
       dependencies |-> <<>>,
       resource_requirements |->
           <<[role |-> "Strategy Consultant", allocation |-> 100,
              cost_per_month |-> 15000]>>,
       start_month |-> 1, end_month |-> 3, confidence |-> 85],
      [id |-> <<"workstream", 2>>,
       name |-> "Capability Development",
       description |-> "Build required capabilities and skills",
       owner |-> "Capability Lead",
       deliverables |->
           <<[id |-> <<"deliverable", 2>>, name |-> "Capability Assessment",
              description |-> "Gap analysis of current vs required capabilities",
              workstream_id |-> <<"workstream", 2>>, due_month |-> 2,
              status |-> "not_started"]>>,
       dependencies |-> <<(<<"workstream", 1>>)>>,
       resource_requirements |->
           <<[role |-> "Capability Manager", allocation |-> 80,
              cost_per_month |-> 12000]>>,
       start_month |-> 2, end_month |-> 5, confidence |-> 80],
      [id |-> <<"workstream", 3>>,
       name |-> "Execution & Delivery",
       description |-> "Execute strategic initiatives and deliver outcomes",
       owner |-> "Delivery Lead",
       deliverables |->
           <<[id |-> <<"deliverable", 3>>, name |-> "Pilot Implementation",
              description |-> "Initial rollout to validate approach",
              workstream_id |-> <<"workstream", 3>>, due_month |-> 4,
              status |-> "not_started"]>>,
       dependencies |-> <<(<<"workstream", 1>>), (<<"workstream", 2>>)>>,
       resource_requirements |->
           <<[role |-> "Project Manager", allocation |-> 100,
              cost_per_month |-> 13000]>>,
       start_month |-> 3, end_month |-> 6, confidence |-> 75]>>

\* program_crew.py:304-355  _extract_workstreams
_extract_workstreams(all_synthesis, business_name) ==
    LET workstream_data == WorkstreamData(all_synthesis, 1, <<>>)
    IN  IF workstream_data.raised # None THEN workstream_data
        ELSE LET ws_by_name == WsByName(workstream_data.value, 1, <<>>)
             IN  IF ws_by_name.raised # None THEN ws_by_name
                 ELSE LET workstreams == WorkstreamsLoop(ws_by_name.value, 1, <<>>)
                      IN  IF workstreams.raised # None THEN workstreams
                          ELSE IF workstreams.value = <<>>
                          THEN Returns(_generate_default_workstreams(business_name))
                          ELSE workstreams

\* truth value of a JSON value (if desc, if role)
Truthy(v) ==
    CASE v.t = "str" -> v.s # ""
      [] v.t = "num" -> v.n # 0
      [] v.t = "bool" -> v.b
      [] v.t = "list" -> v.a # <<>>
      [] v.t = "dict" -> Keys(v) # {}
      [] OTHER -> FALSE

\* a list or a dict cannot be a member of a set (TypeError: unhashable)
Hashable(v) == v.t \notin {"list", "dict"}

Levels == {"low", "medium", "high"}

\* schemas.py:97-104  Risk: description and mitigation are str, probability
\* and impact one of low, medium, high
RiskValid(r) ==
    /\ Get(r, "description", Str("")).t = "str"
    /\ Get(r, "probability", Str("medium")).t = "str"
    /\ Get(r, "probability", Str("medium")).s \in Levels
    /\ Get(r, "impact", Str("medium")).t = "str"
    /\ Get(r, "impact", Str("medium")).s \in Levels
    /\ Get(r, "mitigation", Str("To be defined")).t = "str"

\* program_crew.py:470-478  the Risk built from item r
RiskOf(r) ==
    [description |-> Get(r, "description", Str("")).s,
     probability |-> Get(r, "probability", Str("medium")).s,
     impact |-> Get(r, "impact", Str("medium")).s,
     mitigation |-> Get(r, "mitigation", Str("To be defined")).s,
     owner |-> "Risk Committee",
     category |-> "Program"]

\* program_crew.py:466-479  the loop over one synthesis's
\* "risks_identified"; acc holds risks and seen_descriptions.  A Risk that
\* fails validation ends the loop for this synthesis (the ValueError is
\* caught at line 480) after its description was added to the seen set.
RECURSIVE RisksLoop(_, _, _)
RisksLoop(items, i, acc) ==
    IF i > Len(items) THEN Returns(acc)
    ELSE IF items[i].t # "dict" THEN Raises("AttributeError")
    ELSE LET desc == Get(items[i], "description", Str(""))
         IN  IF ~Truthy(desc) THEN RisksLoop(items, i + 1, acc)
             ELSE IF ~Hashable(desc) THEN Raises("TypeError")
             ELSE IF desc \in acc.seen THEN RisksLoop(items, i + 1, acc)
             ELSE IF ~RiskValid(items[i])
             THEN Returns([acc EXCEPT !.seen = @ \cup {desc}])
             ELSE RisksLoop(items, i + 1,
                            [risks |-> Append(acc.risks, RiskOf(items[i])),
                             seen |-> acc.seen \cup {desc}])

\* program_crew.py:457-481  the loop over the syntheses
RECURSIVE RisksOfAll(_, _, _)
RisksOfAll(all_synthesis, i, acc) ==
    IF i > Len(all_synthesis) THEN Returns(acc)
    ELSE IF json_start(all_synthesis[i]) # -1 /\ json_end(all_synthesis[i]) # -1
    THEN LET data == json_loads(json_str(all_synthesis[i]))
         IN  IF data.raised # None
             THEN RisksOfAll(all_synthesis, i + 1, acc)
             ELSE IF data.value.t # "dict" THEN Raises("AttributeError")
             ELSE LET items == Iterate(Get(data.value, "risks_identified",
                                           List(<<>>)))
                  IN  IF items.raised # None THEN items
                      ELSE LET loop == RisksLoop(items.value, 1, acc)
                           IN  IF loop.raised # None THEN loop
                               ELSE RisksOfAll(all_synthesis, i + 1, loop.value)
    ELSE RisksOfAll(all_synthesis, i + 1, acc)

\* program_crew.py:483-503  the two risks of a program without extracted risks
DefaultRisks ==
    <<[description |-> "Resource availability constraints may delay timeline",
       probability |-> "medium", impact |-> "high",
       mitigation |-> "Identify backup resources and establish cross-training program",
       owner |-> "Resource Manager", category |-> "Resource"],
      [description |-> "Stakeholder alignment challenges",
       probability |-> "medium", impact |-> "medium",
       mitigation |-> "Regular stakeholder communication and engagement sessions",
       owner |-> "Program Manager", category |-> "Stakeholder"]>>

\* program_crew.py:452-505  _extract_risks
_extract_risks(all_synthesis) ==
    LET found == RisksOfAll(all_synthesis, 1, [risks |-> <<>>, seen |-> {}])
    IN  IF found.raised # None THEN found
        ELSE IF found.value.risks = <<>> THEN Returns(DefaultRisks)
        ELSE Returns(found.value.risks)

\* a list of str
ListOfStr(v) == v.t = "list" /\ \A k \in DOMAIN v.a : v.a[k].t = "str"

\* schemas.py:53-57  ResourceRequirement: role is str, skills a list of
\* str, allocation a float, cost_per_month a float or None
ResourceValid(r) ==
    /\ Get(r, "role", Str("")).t = "str"
    /\ ListOfStr(Get(r, "skills", List(<<>>)))
    /\ Get(r, "allocation", Number(100)).t = "num"
    /\ Get(r, "costPerMonth", Number(10000)).t \in {"num", "null"}

\* program_crew.py:525-530  the ResourceRequirement built from item r
ResourceOf(r) ==
    [role |-> Get(r, "role", Str("")).s,
     skills |-> Get(r, "skills", List(<<>>)).a,
     allocation |-> Get(r, "allocation", Number(100)).n,
     cost_per_month |->
         IF Get(r, "costPerMonth", Number(10000)).t = "null"
         THEN 0 ELSE Get(r, "costPerMonth", Number(10000)).n]

\* program_crew.py:521-531  the loop over one synthesis's
\* "resources_needed"; acc holds resources and seen_roles
RECURSIVE ResourcesLoop(_, _, _)
ResourcesLoop(items, i, acc) ==
    IF i > Len(items) THEN Returns(acc)
    ELSE IF items[i].t # "dict" THEN Raises("AttributeError")
    ELSE LET role == Get(items[i], "role", Str(""))
         IN  IF ~Truthy(role) THEN ResourcesLoop(items, i + 1, acc)
             ELSE IF ~Hashable(role) THEN Raises("TypeError")
             ELSE IF role \in acc.seen THEN ResourcesLoop(items, i + 1, acc)
             ELSE IF ~ResourceValid(items[i])
             THEN Returns([acc EXCEPT !.seen = @ \cup {role}])
             ELSE ResourcesLoop(items, i + 1,
                      [resources |-> Append(acc.resources, ResourceOf(items[i])),
                       seen |-> acc.seen \cup {role}])

\* program_crew.py:512-532  the loop over the syntheses
RECURSIVE ResourcesOfAll(_, _, _)
ResourcesOfAll(all_synthesis, i, acc) ==
    IF i > Len(all_synthesis) THEN Returns(acc)
    ELSE IF json_start(all_synthesis[i]) # -1 /\ json_end(all_synthesis[i]) # -1
    THEN LET data == json_loads(json_str(all_synthesis[i]))
         IN  IF data.raised # None
             THEN ResourcesOfAll(all_synthesis, i + 1, acc)
             ELSE IF data.value.t # "dict" THEN Raises("AttributeError")
             ELSE LET items == Iterate(Get(data.value, "resources_needed",
                                           List(<<>>)))
                  IN  IF items.raised # None THEN items
                      ELSE LET loop == ResourcesLoop(items.value, 1, acc)
                           IN  IF loop.raised # None THEN loop
                               ELSE ResourcesOfAll(all_synthesis, i + 1, loop.value)
    ELSE ResourcesOfAll(all_synthesis, i + 1, acc)

\* program_crew.py:535-540  the three resources of a program without
\* extracted resources
DefaultResources ==
    <<[role |-> "Strategy Consultant", skills |-> <<Str("Strategic Planning")>>,
       allocation |-> 100, cost_per_month |-> 15000],
      [role |-> "Project Manager", skills |-> <<Str("Project Management")>>,
       allocation |-> 100, cost_per_month |-> 13000],
      [role |-> "Business Analyst", skills |-> <<Str("Analysis")>>,
       allocation |-> 50, cost_per_month |-> 10000]>>

\* program_crew.py:507-542  _extract_resources
_extract_resources(all_synthesis) ==
    LET found == ResourcesOfAll(all_synthesis, 1, [resources |-> <<>>, seen |-> {}])
    IN  IF found.raised # None THEN found
        ELSE IF found.value.resources = <<>> THEN Returns(DefaultResources)
        ELSE Returns(found.value.resources)

\* ----------------------------------- program_crew.py: the derived plans
Max(a, b) == IF a >= b THEN a ELSE b

\* max(...) and min(...) of a non-empty set of integers
MaxOf(S) == CHOOSE x \in S : \A y \in S : y <= x
MinOf(S) == CHOOSE x \in S : \A y \in S : x <= y

\* s[:n]
Prefix(s, n) == SubSeq(s, 1, Min(n, Len(s)))

\* the concatenation of a sequence of sequences
RECURSIVE Flatten(_)
Flatten(ss) == IF ss = <<>> THEN <<>> ELSE Head(ss) \o Flatten(Tail(ss))

\* program_crew.py:565-568  the ids of the deliverables of ws due by phase_end
DueBy(ws, phase_end) ==
    LET due(d) == d.due_month # 0 /\ d.due_month <= phase_end
    IN  [k \in 1..Len(SelectSeq(ws.deliverables, due)) |->
            SelectSeq(ws.deliverables, due)[k].id]

\* program_crew.py:552-588  the phases from current_phase_start on
RECURSIVE Phases(_, _, _, _, _)
Phases(workstreams, current_phase_start, phase_num, max_month, phase_duration) ==
    IF current_phase_start > max_month THEN <<>>
    ELSE LET phase_end == Min(current_phase_start + phase_duration - 1, max_month)
             inPhase(ws) == /\ ws.start_month <= phase_end
                            /\ ws.end_month >= current_phase_start
             members == SelectSeq(workstreams, inPhase)
             phase_workstreams == [k \in DOMAIN members |-> members[k].id]
             phase_deliverables ==
                 Flatten([k \in DOMAIN members |-> DueBy(members[k], phase_end)])
         IN  <<[number |-> phase_num,
                start_month |-> current_phase_start,
                end_month |-> phase_end,
                workstream_ids |-> phase_workstreams,
                milestones |->
                    <<[due_month |-> phase_end,
                       deliverable_ids |-> Prefix(phase_deliverables, 5)]>>]>>
             \o Phases(workstreams, phase_end + 1, phase_num + 1, max_month,
                       phase_duration)

\* sorted(workstreams, key=lambda x: x.start_month): a stable sort
RECURSIVE SortedByStart(_)
SortedByStart(workstreams) ==
    IF workstreams = <<>> THEN <<>>
    ELSE LET last == workstreams[Len(workstreams)]
             rest == SortedByStart(SubSeq(workstreams, 1, Len(workstreams) - 1))
             notAfter(ws) == ws.start_month <= last.start_month
             after(ws) == ws.start_month > last.start_month
         IN  SelectSeq(rest, notAfter) \o <<last>> \o SelectSeq(rest, after)

\* program_crew.py:590-594  critical_path: the first workstream in start
\* order and every one that has dependencies
RECURSIVE CriticalPath(_, _)
CriticalPath(sorted_ws, critical_path) ==
    IF sorted_ws = <<>> THEN critical_path
    ELSE CriticalPath(Tail(sorted_ws),
                      IF Head(sorted_ws).dependencies # <<>> \/ critical_path = <<>>
                      THEN Append(critical_path, Head(sorted_ws).id)
                      ELSE critical_path)

\* program_crew.py:544-600  _build_timeline
_build_timeline(workstreams) ==
    IF workstreams = <<>>
    THEN [phases |-> <<>>, total_months |-> 6, critical_path |-> <<>>]
    ELSE LET max_month == MaxOf({workstreams[k].end_month : k \in DOMAIN workstreams})
             min_month == MinOf({workstreams[k].start_month : k \in DOMAIN workstreams})
             phase_duration == Max((max_month - min_month + 1) \div 3, 2)
         IN  [phases |-> Phases(workstreams, min_month, 1, max_month, phase_duration),
              total_months |-> max_month,
              critical_path |-> CriticalPath(SortedByStart(workstreams), <<>>)]

\* amounts of money and ratios are exact fractions n/d in lowest terms with
\* d > 0 (the program computes them in floating point)
RECURSIVE GCD(_, _)
GCD(a, b) == IF b = 0 THEN a ELSE GCD(b, a % b)

Abs(a) == IF a < 0 THEN -a ELSE a

Fraction(n, d) ==
    LET g == GCD(Abs(n), Abs(d))
        sign == IF d < 0 THEN -1 ELSE 1
    IN  [n |-> sign * (n \div g), d |-> sign * (d \div g)]

Whole(n) == [n |-> n, d |-> 1]

Plus(a, b) == Fraction(a.n * b.d + b.n * a.d, a.d * b.d)

\* a * b, cancelling across before multiplying
Times(a, b) ==
    LET x == Fraction(a.n, b.d)
        y == Fraction(b.n, a.d)
    IN  Fraction(x.n * y.n, x.d * y.d)

\* a / b, b not zero
Over(a, b) == Times(a, Fraction(b.d, b.n))

Greater(a, b) == a.n * b.d > b.n * a.d

\* program_crew.py:604-607  sum((r.cost_per_month or 10000) * r.allocation * 6
\* for r in resources); allocations are in hundredths, a cost_per_month of
\* None is represented by 0, which "or" replaces as it replaces None
RECURSIVE TotalCost(_)
TotalCost(resources) ==
    IF resources = <<>> THEN Whole(0)
    ELSE Plus(Times(Times(Whole(IF Head(resources).cost_per_month # 0
                                THEN Head(resources).cost_per_month ELSE 10000),
                          Fraction(Head(resources).allocation, 100)),
                    Whole(6)),
              TotalCost(Tail(resources)))

\* program_crew.py:602-613  _build_resource_plan
_build_resource_plan(resources) ==
    [roles |-> resources,
     total_headcount |-> Len(resources),
     total_cost |-> TotalCost(resources)]

\* program_crew.py:629  75000 + (personnel_cost + 10000) * 6
ComputedTotal(resource_plan) ==
    Plus(Whole(75000),
         Times(Plus(Over(resource_plan.total_cost, Whole(6)), Whole(10000)),
               Whole(6)))

\* program_crew.py:631  if input_data.constraints and
\* input_data.constraints.budget: the constraints object is given and its
\* budget is neither None nor 0
BudgetSet(constraints) ==
    /\ constraints.t # "null"
    /\ constraints.budget.t # "null"
    /\ constraints.budget.n # 0

\* program_crew.py:635-638  item.amount *= scale_factor
Scaled(items, scale_factor) ==
    [k \in DOMAIN items |->
        [items[k] EXCEPT !.amount = Times(@, scale_factor)]]

\* program_crew.py:615-645  _build_financial_plan
_build_financial_plan(resource_plan, constraints) ==
    LET personnel_cost == Over(resource_plan.total_cost, Whole(6))
        capex == <<[category |-> "Technology", amount |-> Whole(50000),
                    frequency |-> "one_time"],
                   [category |-> "Infrastructure", amount |-> Whole(25000),
                    frequency |-> "one_time"]>>
        opex == <<[category |-> "Personnel", amount |-> personnel_cost,
                   frequency |-> "monthly"],
                  [category |-> "Operations", amount |-> Whole(10000),
                   frequency |-> "monthly"]>>
        total_budget == ComputedTotal(resource_plan)
        scale == /\ BudgetSet(constraints)
                 /\ Greater(total_budget, Whole(constraints.budget.n))
        scale_factor == Over(Whole(constraints.budget.n), total_budget)
        new_total == IF scale THEN Whole(constraints.budget.n) ELSE total_budget
    IN  [capex |-> IF scale THEN Scaled(capex, scale_factor) ELSE capex,
         opex |-> IF scale THEN Scaled(opex, scale_factor) ELSE opex,
         total_budget |-> new_total,
         contingency |-> Times(new_total, Fraction(1, 10))]

\* program_crew.py:742-746  overall_risk_level
RiskLevelMutant(risks) ==
    LET count(level) == Cardinality({k \in DOMAIN risks : risks[k].impact = level})
    IN  IF 2 * count("high") >= Len(risks) THEN "high"
        ELSE IF 2 * count("low") >= Len(risks) THEN "low"
        ELSE "medium"
RiskLevel(risks) ==
    LET count(level) == Cardinality({k \in DOMAIN risks : risks[k].impact = level})
    IN  IF 2 * count("high") > Len(risks) THEN "high"
        ELSE IF 2 * count("low") > Len(risks) THEN "low"
        ELSE "medium"

\* program_crew.py:748-750  overall_confidence, in hundredths
RECURSIVE SumConfidence(_)
SumConfidence(workstreams) ==
    IF workstreams = <<>> THEN 0
    ELSE Head(workstreams).confidence + SumConfidence(Tail(workstreams))

OverallConfidence(workstreams) ==
    IF workstreams # <<>>
    THEN Fraction(SumConfidence(workstreams), Len(workstreams))
    ELSE Whole(80)

\* program_crew.py:735-770  what generate does behind the round loop: the
\* extraction calls are outside every try, their exception leaves generate
Assemble(all_synthesis, log, decided, input_data) ==
    LET workstreams == _extract_workstreams(all_synthesis, input_data.business_name)
        risks == _extract_risks(all_synthesis)
        resources == _extract_resources(all_synthesis)
    IN  IF workstreams.raised # None THEN workstreams
        ELSE IF risks.raised # None THEN risks
        ELSE IF resources.raised # None THEN resources
        ELSE Returns(
            [program |->
                [title |-> input_data.business_name
                               \o " Strategic Transformation Program",
                 workstreams |-> workstreams.value,
                 timeline |-> _build_timeline(workstreams.value),
                 resource_plan |-> _build_resource_plan(resources.value),
                 risk_register |->
                     [risks |-> risks.value,
                      overall_risk_level |-> RiskLevel(risks.value)],
                 financial_plan |->
                     _build_financial_plan(_build_resource_plan(resources.value),
                                           input_data.constraints),
                 overall_confidence |-> OverallConfidence(workstreams.value)],
             conversation_log |-> log,
             decisions |-> decided,
             rounds_completed |-> Len(all_synthesis),
             agents_participated |-> 7])

\* ------------------------------- program_crew.py: ProgramPlanningCrew.generate
MaxCrewRounds == 2    \* rounds the round definition file lists
MaxTurns == 2         \* tasks _create_round_tasks builds for one round

\* program_crew.py:263-274  _log_conversation: an entry of the log; kind
\* stands for the message: "start" (Starting Round ...), "turn" (an agent's
\* output), "crew" (the crew's output as a whole), "synthesis" (the
\* coordinator's synthesis) and "error" (Round ... encountered an error: ...)
Entry(round_num, agent_id, kind, turn) ==
    [round |-> round_num, agent_id |-> agent_id, kind |-> kind, turn |-> turn]

\* a decision item, a workstream item, a risk item and a resource item of a
\* structured block
DecisionItem(topic) ==
    [t |-> "dict", topic |-> Str(topic), decision |-> Str("go"),
     rationale |-> Str("because")]

WorkstreamItem(name, description, startMonth, endMonth) ==
    [t |-> "dict", name |-> Str(name), description |-> Str(description),
     owner |-> Str("Lead"), startMonth |-> Number(startMonth),
     endMonth |-> Number(endMonth)]

RiskItem(description, impact) ==
    [t |-> "dict", description |-> Str(description),
     probability |-> Str("medium"), impact |-> Str(impact),
     mitigation |-> Str("plan")]

ResourceItem(role, allocation, costPerMonth) ==
    [t |-> "dict", role |-> Str(role), skills |-> List(<<Str("skill")>>),
     allocation |-> Number(allocation), costPerMonth |-> Number(costPerMonth)]

\* a text with the structured block v between prose
Fenced(v) == <<Prose, FenceJson, Json(v), Fence, Prose>>

\* the synthesis texts a coordinator returns in a run: two with a complete
\* block (the workstream A is named by both, with different fields), one
\* without a block, one with invalid JSON in the block and one whose block
\* is a list
SynthesisTexts ==
    {Fenced([t |-> "dict",
             decisions |-> List(<<DecisionItem("scope")>>),
             workstream_updates |->
                 List(<<WorkstreamItem("A", "first", 1, 4),
                        WorkstreamItem("B", "build", 2, 6)>>),
             risks_identified |-> List(<<RiskItem("delay", "high")>>),
             resources_needed |-> List(<<ResourceItem("Engineer", 100, 12000)>>)]),
     Fenced([t |-> "dict",
             workstream_updates |->
                 List(<<WorkstreamItem("A", "second", 3, 9),
                        WorkstreamItem("C", "launch", 5, 8)>>)]),
     <<Prose>>,
     <<Prose, FenceJson, Prose, Fence>>,
     Fenced(List(<<DecisionItem("scope")>>))}

\* the round definition file (config/rounds/standard_planning.yaml): its
\* k-th round has number k and builds no task (none of its participating
\* agents is configured) or MaxTurns tasks
RoundConfigs ==
    UNION {[1..n -> [round : 1..MaxCrewRounds, tasks : {0, MaxTurns}]]
              : n \in 0..MaxCrewRounds}

\* the input of a run: the business and its constraints
GenerateInputs ==
    {[fn |-> "generate",
      input_data |-> [business_name |-> "Acme",
                      constraints |-> [t |-> "dict", budget |-> Number(200000)]]]}

InitCrew ==
    /\ ServiceInit
    /\ round_config \in {rc \in RoundConfigs : \A k \in DOMAIN rc : rc[k].round = k}
    /\ gpc = "idle"
    /\ round_index = 0
    /\ conversation_log = <<>>
    /\ all_synthesis_outputs = <<>>
    /\ decisions = <<>>
    /\ crew_result = NoRet
    /\ call \in GenerateInputs
    /\ ret = NoRet

round_num == round_config[round_index].round

\* program_crew.py:654-663  generate starts: empty log and decisions
GenerateBegin ==
    /\ gpc = "idle"
    /\ gpc' = "round"
    /\ round_index' = 1
    /\ conversation_log' = <<>>
    /\ decisions' = <<>>
    /\ all_synthesis_outputs' = <<>>
    /\ UNCHANGED <<service, round_config, crew_result, call, ret>>

\* program_crew.py:664-677  a round starts: its system entry; a round
\* without tasks is left with continue
RoundStartMutant ==
    /\ gpc = "round"
    /\ round_index <= Len(round_config)
    /\ conversation_log' =
           <<Entry(round_num, "system", "start", 0)>> \o conversation_log
    /\ IF round_config[round_index].tasks = 0
       THEN /\ round_index' = round_index + 1
            /\ gpc' = "round"
       ELSE /\ round_index' = round_index
            /\ gpc' = "kickoff"
    /\ UNCHANGED <<service, round_config, all_synthesis_outputs, decisions,
                   crew_result, call, ret>>
RoundStart ==
    /\ gpc = "round"
    /\ round_index <= Len(round_config)
    /\ conversation_log' =
           Append(conversation_log, Entry(round_num, "system", "start", 0))
    /\ IF round_config[round_index].tasks = 0
       THEN /\ round_index' = round_index + 1
            /\ gpc' = "round"
       ELSE /\ round_index' = round_index
            /\ gpc' = "kickoff"
    /\ UNCHANGED <<service, round_config, all_synthesis_outputs, decisions,
                   crew_result, call, ret>>

\* program_crew.py:727-733  except Exception: the round's error entry, continue
RoundFailedMutant(log) ==
    /\ conversation_log' = log
    /\ round_index' = round_index + 1
    /\ gpc' = "round"
RoundFailed(log) ==
    /\ conversation_log' =
           Append(log, Entry(round_num, "system", "error", 0))
    /\ round_index' = round_index + 1
    /\ gpc' = "round"

\* program_crew.py:690-702  the entries of the task outputs: output k is
\* logged when named[k], that is when its first 200 characters hold the
\* role of an agent
RECURSIVE TurnEntries(_, _, _)
TurnEntries(named, k, r) ==
    IF k > Len(named) THEN <<>>
    ELSE (IF named[k] THEN <<Entry(r, "agent", "turn", k)>> ELSE <<>>)
         \o TurnEntries(named, k + 1, r)

\* program_crew.py:686-705  crew.kickoff(): it raises, or returns one
\* output per task, or a result without tasks_output
Kickoff ==
    /\ gpc = "kickoff"
    /\ \/ /\ RoundFailed(conversation_log)
       \/ /\ \E named \in [1..round_config[round_index].tasks -> BOOLEAN] :
                 conversation_log' =
                     conversation_log \o TurnEntries(named, 1, round_num)
          /\ gpc' = "synthesis"
          /\ round_index' = round_index
       \/ /\ conversation_log' =
                 Append(conversation_log, Entry(round_num, "crew", "crew", 0))
          /\ gpc' = "synthesis"
          /\ round_index' = round_index
    /\ UNCHANGED <<service, round_config, all_synthesis_outputs, decisions,
                   crew_result, call, ret>>

\* program_crew.py:707-725  the synthesis pass: it raises, or its output is
\* kept and logged and its decisions are extracted; an exception of
\* _extract_decisions is caught like one of the pass itself
Synthesis ==
    /\ gpc = "synthesis"
    /\ \/ /\ RoundFailed(conversation_log)
          /\ UNCHANGED <<all_synthesis_outputs, decisions>>
       \/ \E synthesis_output \in SynthesisTexts :
             LET round_decisions == _extract_decisions(synthesis_output, round_num)
                 log == Append(conversation_log,
                               Entry(round_num, "program_coordinator",
                                     "synthesis", 0))
             IN  /\ all_synthesis_outputs' =
                        Append(all_synthesis_outputs, synthesis_output)
                 /\ IF round_decisions.raised # None
                    THEN /\ RoundFailed(log)
                         /\ UNCHANGED decisions
                    ELSE /\ conversation_log' = log
                         /\ decisions' = decisions \o round_decisions.value
                         /\ round_index' = round_index + 1
                         /\ gpc' = "round"
    /\ UNCHANGED <<service, round_config, crew_result, call, ret>>

\* program_crew.py:735-770  the round list is exhausted: the program is
\* assembled and returned, or an extraction raises
GenerateEnd ==
    /\ gpc = "round"
    /\ round_index > Len(round_config)
    /\ crew_result' = Assemble(all_synthesis_outputs, conversation_log,
                               decisions, call.input_data)
    /\ gpc' = "done"
    /\ UNCHANGED <<service, round_config, round_index, conversation_log,
                   all_synthesis_outputs, decisions, call, ret>>

NextCrew ==
    \/ GenerateBegin
    \/ RoundStart
    \/ Kickoff
    \/ Synthesis
    \/ GenerateEnd

SpecCrew == InitCrew /\ [][NextCrew]_vars

\* ------------------------------ knowledge_curator.py: _parse_candidates
\* the text from the first "[" to the last "]" of the JSON text of v (strs
\* hold no bracket): a list is bracketed as a whole; a dict holds the
\* brackets of its values, and when two of its values hold some the text
\* runs from one into the other and is no JSON value
RECURSIVE Bracketed(_)
Bracketed(v) ==
    CASE v.t = "list" -> <<Json(v)>>
      [] v.t = "dict" ->
            LET holders == {key \in Keys(v) : Bracketed(v[key]) # <<>>}
            IN  IF holders = {} THEN <<>>
                ELSE IF Cardinality(holders) = 1
                THEN Bracketed(v[CHOOSE key \in holders : TRUE])
                ELSE <<Prose>>
      [] OTHER -> <<>>

\* knowledge_curator.py:207  re.search(r'\[[\s\S]*\]', result): the greedy
\* match from the first "[" to the last "]" of the text, <<>> if none
json_match(result) ==
    LET holders == {i \in DOMAIN result :
                       result[i].k = "json" /\ Bracketed(result[i].v) # <<>>}
    IN  IF holders = {} THEN <<>>
        ELSE IF Cardinality(holders) = 1
        THEN Bracketed(result[CHOOSE i \in holders : TRUE].v)
        ELSE <<Prose>>

\* knowledge_curator.py:210-211  a JSONDecodeError leaves candidates = []
ParsedOrEmpty(data) == IF data.raised # None THEN Returns(List(<<>>)) ELSE data

\* knowledge_curator.py:195-213  _parse_candidates: whatever value the
\* fenced block holds, else whatever the bracketed text holds, else []
_parse_candidates(result) ==
    IF json_start(result) # -1 /\ json_end(result) # -1
    THEN ParsedOrEmpty(json_loads(json_str(result)))
    ELSE IF json_match(result) # <<>>
    THEN ParsedOrEmpty(json_loads(json_match(result)))
    ELSE Returns(List(<<>>))

\* ------------------------------------------- the extractors, one call each
MaxPieces == 3        \* pieces of an output text handed to an extractor

\* the key of the block an extractor reads
BlockKey(fn) ==
    CASE fn = "_extract_decisions" -> "decisions"
      [] fn = "_extract_workstreams" -> "workstream_updates"
      [] fn = "_extract_risks" -> "risks_identified"
      [] fn = "_extract_resources" -> "resources_needed"
      [] OTHER -> "candidates"

\* an item of the kind an extractor expects
BlockItem(fn) ==
    CASE fn = "_extract_decisions" -> DecisionItem("scope")
      [] fn = "_extract_workstreams" -> WorkstreamItem("A", "first", 1, 4)
      [] fn = "_extract_risks" -> RiskItem("delay", "high")
      [] fn = "_extract_resources" -> ResourceItem("Engineer", 100, 12000)
      [] OTHER -> [t |-> "dict", content |-> Str("c"), summary |-> Str("s")]

\* a dict with the one key of the extractor
Block(fn, v) == ("t" :> "dict") @@ (BlockKey(fn) :> v)

\* the JSON values an LLM may put in its output: the block as asked for, an
\* object without the key, a list of items, a list of numbers, a number, and
\* an object whose key holds a list of numbers or a number
BlockValues(fn) ==
    {Block(fn, List(<<BlockItem(fn)>>)),
     [t |-> "dict"],
     List(<<BlockItem(fn)>>),
     List(<<Number(1)>>),
     Number(1),
     Block(fn, List(<<Number(1)>>)),
     Block(fn, Number(1))}

Pieces(fn) == {Prose, FenceJson, Fence} \cup {Json(v) : v \in BlockValues(fn)}

Extractors ==
    {"_extract_decisions", "_extract_workstreams", "_extract_risks",
     "_extract_resources", "_parse_candidates"}

\* the calls: an extractor and a text of up to limit pieces
ExtractCalls(limit) ==
    UNION {{[fn |-> fn, text |-> text] :
               text \in UNION {[1..n -> Pieces(fn)] : n \in 0..limit}} :
           fn \in Extractors}

InitExtract ==
    /\ ServiceInit
    /\ OrchestratorIdle
    /\ call \in ExtractCalls(MaxPieces)
    /\ ret = NoRet

\* the call of an extractor returns or raises
Called(fn, outcome) ==
    /\ call.fn = fn
    /\ ret = NoRet
    /\ ret' = outcome
    /\ UNCHANGED <<service, orchestrator, call>>

ExtractDecisions == Called("_extract_decisions", _extract_decisions(call.text, 1))

ExtractWorkstreams ==
    Called("_extract_workstreams", _extract_workstreams(<<call.text>>, "Acme"))

ExtractRisks == Called("_extract_risks", _extract_risks(<<call.text>>))

ExtractResources == Called("_extract_resources", _extract_resources(<<call.text>>))

ParseCandidates == Called("_parse_candidates", _parse_candidates(call.text))

NextExtract ==
    \/ ExtractDecisions
    \/ ExtractWorkstreams
    \/ ExtractRisks
    \/ ExtractResources
    \/ ParseCandidates

SpecExtract == InitExtract /\ [][NextExtract]_vars

\* ------------------------------------ the financial plan, one call each
MaxResources == 2     \* roles of a resource plan
MaxBudgetSteps == 5   \* largest budget constraint, in steps of BudgetStep
BudgetStep == 100000

\* the roles a resource plan may hold: a full-time and a half-time one with
\* a monthly cost, and one without (cost_per_month None)
ResourceChoices ==
    {[role |-> "Engineer", skills |-> <<Str("skill")>>,
      allocation |-> 100, cost_per_month |-> 15000],
     [role |-> "Analyst", skills |-> <<Str("skill")>>,
      allocation |-> 50, cost_per_month |-> 12000],
     [role |-> "Advisor", skills |-> <<Str("skill")>>,
      allocation |-> 100, cost_per_month |-> 0]}

\* schemas.py:35-40  the constraints of an input: none, or with a budget of
\* None or of a number from 0 on
ConstraintChoices ==
    {JsonNull, [t |-> "dict", budget |-> JsonNull]}
        \cup {[t |-> "dict", budget |-> Number(k * BudgetStep)] :
                 k \in 0..MaxBudgetSteps}

FinanceCalls ==
    {[fn |-> "_build_financial_plan", resources |-> resources,
      constraints |-> constraints] :
        resources \in UNION {[1..n -> ResourceChoices] : n \in 0..MaxResources},
        constraints \in ConstraintChoices}

InitFinance ==
    /\ ServiceInit
    /\ OrchestratorIdle
    /\ call \in FinanceCalls
    /\ ret = NoRet

\* program_crew.py:739-740  the resource plan of the resources, then the
\* financial plan of it
BuildFinancialPlan ==
    /\ call.fn = "_build_financial_plan"
    /\ ret = NoRet
    /\ ret' = Returns(_build_financial_plan(_build_resource_plan(call.resources),
                                            call.constraints))
    /\ UNCHANGED <<service, orchestrator, call>>

NextFinance == BuildFinancialPlan

SpecFinance == InitFinance /\ [][NextFinance]_vars

\* ------------------------------------- knowledge_curator.py: str values
\* A str of a candidate is a sequence of runs [c |-> character, n |-> length]
\* in which neighbours differ in c, so that a content of a hundred
\* characters and more is a short sequence.  Text the curator writes itself
\* is one run whose c is the whole text.
MaxChunks == 3        \* runs of a str of a candidate

\* knowledge_curator.py:247  the length of the content prefix that is compared
ContentKeyLen == 100

Chars == {"a", "A", "b", " "}
RunLengths == {1, 99}

Lit(s) == <<[c |-> s, n |-> 1]>>

\* the strs of up to MaxChunks runs; only "a" comes in long runs
Texts ==
    {s \in UNION {[1..n -> [c : Chars, n : RunLengths]] : n \in 0..MaxChunks} :
        /\ \A k \in DOMAIN s : s[k].n = 1 \/ s[k].c = "a"
        /\ \A k \in 1..(Len(s) - 1) : s[k].c # s[k + 1].c}

\* neighbours with the same character are one run
RECURSIVE Normalize(_)
Normalize(s) ==
    IF Len(s) < 2 THEN s
    ELSE IF s[1].c = s[2].c
    THEN Normalize(<<[c |-> s[1].c, n |-> s[1].n + s[2].n]>> \o SubSeq(s, 3, Len(s)))
    ELSE <<s[1]>> \o Normalize(Tail(s))

\* str.lower()
LowerOf(c) == CASE c = "A" -> "a" [] c = "B" -> "b" [] OTHER -> c
Lower(s) == Normalize([k \in DOMAIN s |-> [s[k] EXCEPT !.c = LowerOf(@)]])

\* str.replace(old, new) for single characters
Replace(s, old, new) ==
    Normalize([k \in DOMAIN s |-> [s[k] EXCEPT !.c = IF @ = old THEN new ELSE @]])

\* s[:k]
RECURSIVE Take(_, _)
Take(s, k) ==
    IF s = <<>> \/ k <= 0 THEN <<>>
    ELSE IF Head(s).n <= k THEN <<Head(s)>> \o Take(Tail(s), k - Head(s).n)
    ELSE <<[Head(s) EXCEPT !.n = k]>>

\* str.strip()
RECURSIVE Strip(_)
Strip(s) ==
    IF s = <<>> THEN s
    ELSE IF Head(s).c = " " THEN Strip(Tail(s))
    ELSE IF s[Len(s)].c = " " THEN Strip(SubSeq(s, 1, Len(s) - 1))
    ELSE s

\* set(s.split()): the maximal runs of non-blank characters
RECURSIVE Words(_, _)
Words(s, word) ==
    IF s = <<>> THEN IF word = <<>> THEN {} ELSE {word}
    ELSE IF Head(s).c = " "
    THEN (IF word = <<>> THEN {} ELSE {word}) \cup Words(Tail(s), <<>>)
    ELSE Words(Tail(s), Append(word, Head(s)))

\* the overlap measured against the words of s1 alone
SimilarityMutant(s1, s2) ==
    LET words1 == Words(s1, <<>>)
        words2 == Words(s2, <<>>)
    IN  IF words1 = {} \/ words2 = {} THEN Fraction(0, 1)
        ELSE Fraction(Cardinality(words1 \cap words2), Cardinality(words1))

\* knowledge_curator.py:266-277  _similarity_score: |words1 & words2| /
\* |words1 | words2|, 0.0 if either has no word
_similarity_score(s1, s2) ==
    LET words1 == Words(s1, <<>>)
        words2 == Words(s2, <<>>)
    IN  IF words1 = {} \/ words2 = {} THEN Fraction(0, 1)
        ELSE Fraction(Cardinality(words1 \cap words2),
                      Cardinality(words1 \cup words2))

\* --------------------------------- knowledge_curator.py: KnowledgeCurator
\* knowledge_curator.py:43-56
KNOWLEDGE_TYPES ==
    {"fact", "estimate", "constraint", "lesson_learned", "decision_rationale",
     "pattern"}
KNOWLEDGE_SCOPES == {"organization", "industry", "program_specific"}

\* a number or a bool as a number, in hundredths (True is 1, False is 0)
AsNumber(v) == IF v.t = "bool" THEN (IF v.b THEN 100 ELSE 0) ELSE v.n

\* the candidate accepted whatever its confidence is
ValidateMutant(candidate) ==
    Returns(/\ candidate.t = "dict"
            /\ {"content", "summary", "type", "scope", "confidence"}
                   \subseteq DOMAIN candidate)

\* knowledge_curator.py:215-233  _validate_candidate.  "field not in
\* candidate" is a key test on a dict, a membership test on a list, a
\* substring test on a str (the strs here hold no field name) and a
\* TypeError on a number, a bool or None.  isinstance(confidence, (int,
\* float)) holds for a bool as well: bool is a subclass of int.
_validate_candidate(candidate) ==
    IF candidate.t \in {"num", "bool", "null"} THEN Raises("TypeError")
    ELSE IF candidate.t # "dict" THEN Returns(FALSE)
    ELSE IF ~({"content", "summary", "type", "scope", "confidence"}
                  \subseteq DOMAIN candidate)
    THEN Returns(FALSE)
    ELSE IF ~(candidate.type.t = "str" /\ candidate.type.s \in KNOWLEDGE_TYPES)
    THEN Returns(FALSE)
    ELSE IF ~(candidate.scope.t = "str" /\ candidate.scope.s \in KNOWLEDGE_SCOPES)
    THEN Returns(FALSE)
    ELSE IF \/ candidate.confidence.t \notin {"num", "bool"}
            \/ AsNumber(candidate.confidence) < 0
            \/ AsNumber(candidate.confidence) > 100
    THEN Returns(FALSE)
    ELSE Returns(TRUE)

\* knowledge_curator.py:503  [c for c in raw_candidates if
\* self._validate_candidate(c)]
RECURSIVE ValidCandidates(_, _, _)
ValidCandidates(items, i, acc) ==
    IF i > Len(items) THEN Returns(acc)
    ELSE LET valid == _validate_candidate(items[i])
         IN  IF valid.raised # None THEN valid
             ELSE ValidCandidates(items, i + 1,
                                  IF valid.value THEN Append(acc, items[i]) ELSE acc)

\* knowledge_curator.py:247, 254  content[:100].lower()
ContentKey(candidate) ==
    Lower(Take(Get(candidate, "content", Str(<<>>)).s, ContentKeyLen))

\* knowledge_curator.py:246  summary.lower().strip()
SummaryKeyMutant(candidate) == Get(candidate, "summary", Str(<<>>)).s
SummaryKey(candidate) == Strip(Lower(Get(candidate, "summary", Str(<<>>)).s))

\* knowledge_curator.py:253-258  some kept candidate's content prefix scores
\* above 0.8 against this one's
SimilarToSome(candidate, unique) ==
    \E k \in DOMAIN unique :
        Greater(_similarity_score(ContentKey(candidate), ContentKey(unique[k])),
                Fraction(4, 5))

\* knowledge_curator.py:245-262  the loop of _deduplicate_candidates; a
\* summary that is no str has no lower (AttributeError), a content that is
\* no str cannot be sliced and lowered (TypeError)
RECURSIVE DeduplicateLoop(_, _, _, _, _)
DeduplicateLoop(candidates, i, unique, seen_summaries, duplicates) ==
    IF i > Len(candidates)
    THEN Returns([unique |-> unique, duplicates |-> duplicates])
    ELSE IF Get(candidates[i], "summary", Str(<<>>)).t # "str"
    THEN Raises("AttributeError")
    ELSE IF Get(candidates[i], "content", Str(<<>>)).t # "str"
    THEN Raises("TypeError")
    ELSE IF SummaryKey(candidates[i]) \in seen_summaries
    THEN DeduplicateLoop(candidates, i + 1, unique, seen_summaries, duplicates + 1)
    ELSE IF SimilarToSome(candidates[i], unique)
    THEN DeduplicateLoop(candidates, i + 1, unique, seen_summaries, duplicates + 1)
    ELSE DeduplicateLoop(candidates, i + 1, Append(unique, candidates[i]),
                         seen_summaries \cup {SummaryKey(candidates[i])},
                         duplicates)

\* duplicates counted but not removed
DeduplicateMutant(candidates) ==
    LET counted == DeduplicateLoop(candidates, 1, <<>>, {}, 0)
    IN  IF counted.raised # None THEN counted
        ELSE Returns([unique |-> candidates,
                      duplicates |-> counted.value.duplicates])

\* knowledge_curator.py:235-264  _deduplicate_candidates
_deduplicate_candidates(candidates) == DeduplicateLoop(candidates, 1, <<>>, {}, 0)

\* knowledge_curator.py:288-302  the list a candidate is put in
CategoryMutant(candidate) ==
    LET confidence == AsNumber(Get(candidate, "confidence", Number(0)))
    IN  IF confidence >= 70 THEN "verified"
        ELSE IF confidence >= 40 THEN "contested"
        ELSE "rejected"
Category(candidate) ==
    LET confidence == AsNumber(Get(candidate, "confidence", Number(0)))
        has_contradictions == Truthy(Get(candidate, "contradicting_agents", List(<<>>)))
    IN  IF has_contradictions
        THEN (IF confidence >= 60 THEN "contested" ELSE "rejected")
        ELSE IF confidence >= 70 THEN "verified"
        ELSE IF confidence >= 40 THEN "contested"
        ELSE "rejected"

\* knowledge_curator.py:279-304  _categorize_by_confidence: the candidates
\* of one category, in order
RECURSIVE Categorized(_, _)
Categorized(candidates, category) ==
    IF candidates = <<>> THEN <<>>
    ELSE (IF Category(Head(candidates)) = category THEN <<Head(candidates)>> ELSE <<>>)
             \o Categorized(Tail(candidates), category)

\* knowledge_curator.py:315-332  the SupportingEvidence of each agent name
Evidence(agents, statement, summary) ==
    [k \in DOMAIN agents |->
        [agent_id |-> Replace(Lower(agents[k].s), " ", "_"),
         agent_name |-> agents[k].s,
         round |-> 1,
         statement |-> Lit(statement) \o summary]]

\* knowledge_curator.py:334-340  suggested_memory_layer
MemoryLayer(knowledge_type) ==
    IF knowledge_type = "fact" THEN "semantic"
    ELSE IF knowledge_type \in {"lesson_learned", "decision_rationale"} THEN "episodic"
    ELSE "symbolic"

\* knowledge_curator.py:306-360  _create_emission of a validated candidate;
\* the id is a fresh uuid4 value and the source's generated_at the time of
\* the call, neither is read again and both are left out.  A float field
\* takes a bool as 1.0 or 0.0.
_create_emission(candidate, program, status) ==
    LET supporting == Get(candidate, "supporting_agents", List(<<>>))
        contradicting == Get(candidate, "contradicting_agents", List(<<>>))
        tags == Get(candidate, "tags", List(<<>>))
        summary == Get(candidate, "summary", Str(<<>>)).s
    IN  IF \/ ~ListOfStr(supporting)
           \/ ~ListOfStr(contradicting)
        THEN Raises("AttributeError")
        ELSE IF ~ListOfStr(tags) THEN Raises("ValidationError")
        ELSE Returns(
            [content |-> Get(candidate, "content", Str(<<>>)).s,
             summary |-> summary,
             type |-> Get(candidate, "type", Str("pattern")).s,
             scope |-> Get(candidate, "scope", Str("program_specific")).s,
             suggested_memory_layer |->
                 MemoryLayer(Get(candidate, "type", Str("pattern")).s),
             tags |-> tags.a,
             confidence |-> AsNumber(Get(candidate, "confidence", Number(50))),
             verification_status |-> status,
             supporting_evidence |-> Evidence(supporting.a, "Endorsed: ", summary),
             contradictions |->
                 IF contradicting.a = <<>> THEN <<>>
                 ELSE Evidence(contradicting.a, "Disputed: ", summary),
             source |-> [program_name |-> program.title,
                         curator_version |-> "1.0.0"]])

\* knowledge_curator.py:509-522  the emissions of the candidates of one list
RECURSIVE Emissions(_, _, _, _, _)
Emissions(candidates, i, program, status, acc) ==
    IF i > Len(candidates) THEN Returns(acc)
    ELSE LET emission == _create_emission(candidates[i], program, status)
         IN  IF emission.raised # None THEN emission
             ELSE Emissions(candidates, i + 1, program, status,
                            Append(acc, emission.value))

\* one fallback emission; contradictions None is the empty sequence, as in
\* _create_emission
Fallback(content, summary, type, scope, layer, tags, confidence, agent_id,
         agent_name, round, statement, program) ==
    [content |-> content, summary |-> summary, type |-> type, scope |-> scope,
     suggested_memory_layer |-> layer, tags |-> tags, confidence |-> confidence,
     verification_status |-> "verified",
     supporting_evidence |->
         <<[agent_id |-> Lit(agent_id), agent_name |-> Lit(agent_name),
            round |-> round, statement |-> Lit(statement)]>>,
     contradictions |-> <<>>,
     source |-> [program_name |-> program.title, curator_version |-> "1.0.0"]]

\* knowledge_curator.py:418-420  r.description[:50] of the first three
\* high-impact risks
HighRisks(program) ==
    LET risks == program.risk_register.risks
        high == SelectSeq(risks, LAMBDA r : r.impact = "high")
    IN  [k \in 1..Min(3, Len(high)) |-> [c |-> high[k].description, n |-> 1, upto |-> 50]]

\* knowledge_curator.py:446-472  the emission of a workstream with dependencies
DependencyFallback(ws, program) ==
    Fallback(Lit("Workstream '") \o Lit(ws.name)
                 \o Lit("' depends on upstream deliverables. Ensure proper sequencing to avoid delays."),
             Lit(ws.name) \o Lit(" dependency constraint"),
             "constraint", "program_specific", "symbolic",
             <<Str(Lit("dependencies")), Str(Lit("sequencing")),
               Str(<<[c |-> ws.name, n |-> 1, lower |-> TRUE, underscores |-> TRUE]>>)>>,
             90, "platform_delivery", "Platform Delivery Manager", 2,
             "Dependencies mapped and validated", program)

\* knowledge_curator.py:361-480  _generate_fallback_emissions
_generate_fallback_emissions(program) ==
    LET workstreams == Prefix(program.workstreams, 3)
    IN  (IF program.timeline.total_months # 0
         THEN <<Fallback(Lit("Programs of this scale typically require ")
                             \o Lit(ToString(program.timeline.total_months))
                             \o Lit(" months for implementation."),
                         Lit("Program duration benchmark"),
                         "pattern", "industry", "semantic",
                         <<Str(Lit("timeline")), Str(Lit("duration")), Str(Lit("benchmark"))>>,
                         80, "program_coordinator", "Program Coordinator", 4,
                         "Timeline validated across workstreams", program)>>
         ELSE <<>>)
        \o <<Fallback(Lit("Resource allocation of ")
                          \o Lit(ToString(program.resource_plan.total_headcount))
                          \o Lit(" FTEs recommended for programs of this scope and complexity."),
                      Lit("Resource sizing guidelines"),
                      "estimate", "organization", "semantic",
                      <<Str(Lit("resources")), Str(Lit("headcount")), Str(Lit("staffing"))>>,
                      75, "finance_resources", "Finance & Resource Manager", 4,
                      "Resource plan validated against budget", program)>>
        \o (IF HighRisks(program) # <<>>
            THEN <<Fallback(Lit("High-impact risks identified: ") \o HighRisks(program)
                                \o Lit(". Proactive mitigation is essential."),
                            Lit("Critical risk patterns"),
                            "lesson_learned", "organization", "episodic",
                            <<Str(Lit("risk")), Str(Lit("mitigation")), Str(Lit("planning"))>>,
                            85, "risk_compliance", "Risk & Compliance Officer", 5,
                            "Risk assessment validated", program)>>
            ELSE <<>>)
        \o Flatten([k \in DOMAIN workstreams |->
                       IF workstreams[k].dependencies # <<>>
                       THEN <<DependencyFallback(workstreams[k], program)>>
                       ELSE <<>>])

\* the emissions without any top-up
ToppedUpMutant(emissions, program) == emissions

\* the top-up whatever the number of emissions
ToppedUpAlwaysMutant(emissions, program) ==
    emissions
        \o SelectSeq(_generate_fallback_emissions(program),
                     LAMBDA fb : \A k \in DOMAIN emissions :
                                     emissions[k].summary # fb.summary)

\* knowledge_curator.py:524-529  the fallback emissions whose summary no
\* emission of a candidate has, appended when there are fewer than five
ToppedUp(emissions, program) ==
    IF Len(emissions) < 5
    THEN emissions
             \o SelectSeq(_generate_fallback_emissions(program),
                          LAMBDA fb : \A k \in DOMAIN emissions :
                                          emissions[k].summary # fb.summary)
    ELSE emissions

\* len(raw_candidates)
LenOf(v) ==
    CASE v.t = "list" -> Len(v.a)
      [] v.t = "dict" -> Cardinality(Keys(v))
      [] OTHER -> 0

\* knowledge_curator.py:531-546  the ledger with its stats
Ledger(raw_candidates, emissions, contested, rejected, duplicates_removed) ==
    [emissions |-> emissions,
     contested |-> contested,
     rejected |-> rejected,
     stats |->
         [total_candidates |-> LenOf(raw_candidates),
          verified |-> Len(emissions),
          deduplicated |-> duplicates_removed,
          emitted |-> Len(emissions),
          contested |-> Len(contested),
          rejected |-> Len(rejected),
          flagged_for_review |->
              Cardinality({k \in DOMAIN emissions : emissions[k].confidence < 80})]]

\* knowledge_curator.py:482-547  curate, from the candidates that
\* _extract_candidates_with_llm returned
curate(raw_candidates, program) ==
    LET items == Iterate(raw_candidates)
    IN  IF items.raised # None THEN items
        ELSE
    LET valid_candidates == ValidCandidates(items.value, 1, <<>>)
    IN  IF valid_candidates.raised # None THEN valid_candidates
        ELSE
    LET deduplicated == _deduplicate_candidates(valid_candidates.value)
    IN  IF deduplicated.raised # None THEN deduplicated
        ELSE
    LET unique_candidates == deduplicated.value.unique
        emissions == Emissions(Categorized(unique_candidates, "verified"), 1,
                               program, "verified", <<>>)
        contested == Emissions(Categorized(unique_candidates, "contested"), 1,
                               program, "contested", <<>>)
        rejected == Emissions(Categorized(unique_candidates, "rejected"), 1,
                              program, "hypothesis", <<>>)
    IN  IF emissions.raised # None THEN emissions
        ELSE IF contested.raised # None THEN contested
        ELSE IF rejected.raised # None THEN rejected
        ELSE Returns(Ledger(raw_candidates, ToppedUp(emissions.value, program),
                            contested.value, rejected.value,
                            deduplicated.value.duplicates))

\* ------------------------------------------ the curator, one call each
MaxCandidates == 3    \* candidates handed to _deduplicate_candidates
MaxRaw == 2           \* candidates the LLM extraction returned to curate

\* a candidate as the extraction prompt asks for it
Candidate(content, summary, confidence) ==
    [t |-> "dict", content |-> Str(content), summary |-> Str(summary),
     type |-> Str("fact"), scope |-> Str("industry"),
     confidence |-> Number(confidence)]

\* a dict without one key
Without(d, key) == [k \in DOMAIN d \ {key} |-> d[k]]

\* the strs handed to _similarity_score
SimilarityCalls ==
    {[fn |-> "_similarity_score", s1 |-> s1, s2 |-> s2] : s1 \in Texts, s2 \in Texts}

\* validated candidates: contents that agree in their first hundred
\* characters, that differ in case, that share no word and that are empty;
\* summaries that differ in case and blanks
DedupChoices ==
    {Candidate(content, summary, 90) :
        content \in {<<[c |-> "a", n |-> 99], [c |-> " ", n |-> 1], [c |-> "b", n |-> 1]>>,
                     <<[c |-> "a", n |-> 99], [c |-> " ", n |-> 1], [c |-> "A", n |-> 1]>>,
                     <<[c |-> "b", n |-> 1]>>,
                     <<>>},
        summary \in {<<[c |-> "a", n |-> 1]>>,
                     <<[c |-> " ", n |-> 1], [c |-> "A", n |-> 1]>>,
                     <<[c |-> "b", n |-> 1]>>}}

DedupCalls ==
    {[fn |-> "_deduplicate_candidates", candidates |-> candidates] :
        candidates \in UNION {[1..n -> DedupChoices] : n \in 0..MaxCandidates}}

\* what the LLM may return as one candidate: with a confidence in each
\* category, with a contradicting agent, without one of the required keys,
\* with a type or a scope outside the taxonomies, with a confidence outside
\* [0, 1], and with a confidence that is a str, null or true
RawVariants(c) ==
    {c,
     [c EXCEPT !.confidence = Number(50)],
     [c EXCEPT !.confidence = Number(30)],
     [t |-> "dict", content |-> c.content, summary |-> c.summary,
      type |-> Str("lesson_learned"), scope |-> c.scope,
      confidence |-> Number(65),
      contradicting_agents |-> List(<<Str(<<[c |-> "A", n |-> 1], [c |-> " ", n |-> 1], [c |-> "b", n |-> 1]>>)>>),
      supporting_agents |-> List(<<Str(<<[c |-> "b", n |-> 1]>>)>>)],
     [c EXCEPT !.type = Str("opinion")],
     [c EXCEPT !.scope = Str("global")],
     [c EXCEPT !.confidence = Number(-10)],
     [c EXCEPT !.confidence = Number(110)],
     [c EXCEPT !.confidence = Str(Lit("high"))],
     [c EXCEPT !.confidence = JsonNull],
     [c EXCEPT !.confidence = Bool(TRUE)]}
        \cup {Without(c, key) :
                 key \in {"content", "summary", "type", "scope", "confidence"}}

RawChoices ==
    RawVariants(Candidate(<<[c |-> "a", n |-> 1]>>, <<[c |-> "a", n |-> 1]>>, 90))
        \cup {Candidate(<<[c |-> "b", n |-> 1]>>, <<[c |-> "b", n |-> 1]>>, 90)}

\* the programs handed to curate: the one of a run without any synthesis
\* (the defaults) and one with a workstream and a low-impact risk of its own
CuratePrograms ==
    {Assemble(<<>>, <<>>, <<>>,
              [business_name |-> "Acme", constraints |-> JsonNull]).value.program,
     Assemble(<<Fenced([t |-> "dict",
                        workstream_updates |->
                            List(<<WorkstreamItem("A", "first", 1, 4)>>),
                        risks_identified |-> List(<<RiskItem("delay", "low")>>)])>>,
              <<>>, <<>>,
              [business_name |-> "Acme", constraints |-> JsonNull]).value.program}

CurateCalls ==
    {[fn |-> "curate", raw_candidates |-> List(raw), program |-> program] :
        raw \in UNION {[1..n -> RawChoices] : n \in 0..MaxRaw},
        program \in CuratePrograms}

\* a call of fn, drawn from calls, is about to be made
InitCall(calls) ==
    /\ ServiceInit
    /\ OrchestratorIdle
    /\ call \in calls
    /\ ret = NoRet

InitSimilarity == InitCall(SimilarityCalls)

SimilarityScore ==
    /\ call.fn = "_similarity_score"
    /\ ret = NoRet
    /\ ret' = Returns(_similarity_score(call.s1, call.s2))
    /\ UNCHANGED <<service, orchestrator, call>>

SpecSimilarity == InitSimilarity /\ [][SimilarityScore]_vars

InitDedup == InitCall(DedupCalls)

DeduplicateCandidates ==
    /\ call.fn = "_deduplicate_candidates"
    /\ ret = NoRet
    /\ ret' = _deduplicate_candidates(call.candidates)
    /\ UNCHANGED <<service, orchestrator, call>>

SpecDedup == InitDedup /\ [][DeduplicateCandidates]_vars

InitCurate == InitCall(CurateCalls)

CurateLedger ==
    /\ call.fn = "curate"
    /\ ret = NoRet
    /\ ret' = curate(call.raw_candidates, call.program)
    /\ UNCHANGED <<service, orchestrator, call>>

SpecCurate == InitCurate /\ [][CurateLedger]_vars

\* --------------------------- the curator from the LLM's answer, one call each
\* knowledge_curator.py:188-193  the end of _extract_candidates_with_llm:
\* result is what crew.kickoff() did; whatever is raised inside the try
\* gives []
_extract_candidates_with_llm(result) ==
    IF result.raised # None THEN Returns(List(<<>>))
    ELSE _parse_candidates(result.value)

\* what the curator's crew does: it raises, or it answers with a text of up
\* to MaxPieces pieces, a list of one complete candidate among them
CuratorResults ==
    {Raises("kickoff failed")}
        \cup {Returns(text) :
                 text \in UNION {[1..n ->
                     Pieces("_parse_candidates")
                         \cup {Json(List(<<Candidate(<<[c |-> "a", n |-> 1]>>,
                                                     <<[c |-> "a", n |-> 1]>>, 90)>>))}]
                     : n \in 0..MaxPieces}}

CurateRunCalls ==
    {[fn |-> "curate", result |-> result, program |-> program] :
        result \in CuratorResults, program \in CuratePrograms}

InitCurateRun == InitCall(CurateRunCalls)

\* knowledge_curator.py:499-547  curate with its extraction
CurateRun ==
    /\ call.fn = "curate"
    /\ ret = NoRet
    /\ ret' = LET raw_candidates == _extract_candidates_with_llm(call.result)
              IN  IF raw_candidates.raised # None THEN raw_candidates
                  ELSE curate(raw_candidates.value, call.program)
    /\ UNCHANGED <<service, orchestrator, call>>

SpecCurateRun == InitCurateRun /\ [][CurateRun]_vars

\* ------------------------------ main.py: the except clause, one call each
\* main.py:218  the length the exception text is cut to in "message"
MessageLimit == 100

\* len(s): a run is n copies of c
RECURSIVE StrLen(_)
StrLen(s) == IF s = <<>> THEN 0 ELSE Len(Head(s).c) * Head(s).n + StrLen(Tail(s))

\* main.py:211-218  what the except clause stores for the exception text e:
\* error is f"Generation failed: {str(e)}", message is
\* f"Failed: {str(e)[:100]}"
Failure(e) ==
    [status |-> "failed",
     error |-> Lit("Generation failed: ") \o e,
     message |-> Lit("Failed: ") \o Take(e, MessageLimit)]

\* the exceptions a worker may catch, by their text
ExceptCalls == {[fn |-> "except", e |-> e] : e \in Texts}

InitExcept == InitCall(ExceptCalls)

\* main.py:211-218 the except clause runs; main.py:285, 305 a poll returns
\* error=job.get("error"), a fetch raises HTTPException(500,
\* detail=job.get("error", "Job failed"))
ExceptClause ==
    /\ call.fn = "except"
    /\ ret = NoRet
    /\ ret' = Returns([record |-> Failure(call.e),
                       poll_error |-> Failure(call.e).error,
                       fetch_detail |-> Failure(call.e).error])
    /\ UNCHANGED <<service, orchestrator, call>>

SpecExcept == InitExcept /\ [][ExceptClause]_vars

\* ------------------------ program_crew.py: _create_synthesis_task, one call
MaxOutputs == 2       \* task outputs of one round

\* program_crew.py:225  the characters of the joined outputs the task shows
SummaryLimit == 8000

\* s[:k] for a str with literal runs (a literal run is one copy of its text)
RECURSIVE Slice(_, _)
Slice(s, k) ==
    IF s = <<>> \/ k <= 0 THEN <<>>
    ELSE IF Len(Head(s).c) * Head(s).n <= k
    THEN <<Head(s)>> \o Slice(Tail(s), k - Len(Head(s).c) * Head(s).n)
    ELSE IF Len(Head(s).c) = 1 THEN <<[Head(s) EXCEPT !.n = k]>>
    ELSE Lit(SubSeq(Head(s).c, 1, k))

\* program_crew.py:219  "\n\n".join([f"Agent Output {i+1}:\n{output}" for i,
\* output in enumerate(round_outputs)]), from the i-th output on
RECURSIVE outputs_summary(_, _)
outputs_summary(round_outputs, i) ==
    IF i > Len(round_outputs) THEN <<>>
    ELSE (IF i > 1 THEN Lit("\n\n") ELSE <<>>)
         \o Lit("Agent Output " \o ToString(i) \o ":\n")
         \o round_outputs[i]
         \o outputs_summary(round_outputs, i + 1)

\* program_crew.py:209-260  _create_synthesis_task: the part of the task
\* description that holds the outputs, {outputs_summary[:8000]}
_create_synthesis_task(round_outputs) ==
    Slice(outputs_summary(round_outputs, 1), SummaryLimit)

\* the character the i-th output of a round is written in
Marker(i) == ToString(i)

\* the outputs of a round: the i-th is a run of its marker
OutputLengths == {1, 10, 100, 3000, 4000, 7000, 8000, 9000}

SynthesisCalls ==
    {[fn |-> "_create_synthesis_task", round_outputs |-> o] :
        o \in UNION {{[i \in 1..n |-> <<[c |-> Marker(i), n |-> len[i]]>>] :
                         len \in [1..n -> OutputLengths]} : n \in 1..MaxOutputs}}

InitSynthesis == InitCall(SynthesisCalls)

\* program_crew.py:707  the synthesis task of a round is built
CreateSynthesisTask ==
    /\ call.fn = "_create_synthesis_task"
    /\ ret = NoRet
    /\ ret' = Returns(_create_synthesis_task(call.round_outputs))
    /\ UNCHANGED <<service, orchestrator, call>>

SpecSynthesis == InitSynthesis /\ [][CreateSynthesisTask]_vars

\* ------------- program_crew.py: workstreams and timeline of a run, one call
MaxUpdates == 2       \* items of the workstream_updates of a synthesis

\* the months a workstream update may name
UpdateMonths == {1, 3, 6}

\* the k-th update of a synthesis: a name and, if given, startMonth and
\* endMonth
UpdateItems(k) ==
    LET named == [t |-> "dict", name |-> Str(<<"A", "B", "C", "D">>[k])]
        started == {named} \cup {named @@ [startMonth |-> Number(m)] : m \in UpdateMonths}
    IN  started \cup {ws @@ [endMonth |-> Number(m)] : ws \in started, m \in UpdateMonths}

\* the syntheses of a run that reach the extraction: one text whose block
\* holds up to MaxUpdates updates
RECURSIVE UpdateLists(_)
UpdateLists(n) ==
    IF n = 0 THEN {<<>>}
    ELSE {Append(updates, ws) : updates \in UpdateLists(n - 1), ws \in UpdateItems(n)}

TimelineCalls ==
    {[fn |-> "_build_timeline",
      all_synthesis |-> <<Fenced([t |-> "dict", workstream_updates |-> List(updates)])>>] :
        updates \in UNION {UpdateLists(n) : n \in 0..MaxUpdates}}

InitTimeline == InitCall(TimelineCalls)

\* program_crew.py:735, 738  workstreams = self._extract_workstreams(...),
\* timeline = self._build_timeline(workstreams)
BuildTimeline ==
    /\ call.fn = "_build_timeline"
    /\ ret = NoRet
    /\ LET workstreams == _extract_workstreams(call.all_synthesis, "Acme")
       IN  ret' = IF workstreams.raised # None THEN workstreams
                  ELSE Returns([workstreams |-> workstreams.value,
                                timeline |-> _build_timeline(workstreams.value)])
    /\ UNCHANGED <<service, orchestrator, call>>

SpecTimeline == InitTimeline /\ [][BuildTimeline]_vars

\* ------------------- program_crew.py: the risk register of a run, one call
MaxRisks == 3         \* items of the risks_identified of a synthesis

\* the k-th risk of a synthesis: a description of its own and, if given,
\* an impact
RiskItems(k) ==
    LET described == [t |-> "dict", description |-> Str(<<"r1", "r2", "r3", "r4">>[k])]
    IN  {described} \cup {described @@ [impact |-> Str(level)] : level \in Levels}

RECURSIVE RiskLists(_)
RiskLists(n) ==
    IF n = 0 THEN {<<>>}
    ELSE {Append(risks, r) : risks \in RiskLists(n - 1), r \in RiskItems(n)}

\* the syntheses of a run that reach the extraction: one text whose block
\* holds up to MaxRisks risks
RegisterCalls ==
    {[fn |-> "risk_register",
      all_synthesis |-> <<Fenced([t |-> "dict", risks_identified |-> List(risks)])>>] :
        risks \in UNION {RiskLists(n) : n \in 0..MaxRisks}}

InitRegister == InitCall(RegisterCalls)

\* program_crew.py:736, 742-746, 760  risks = self._extract_risks(...),
\* RiskRegister(risks=risks, overall_risk_level=risk_level)
BuildRegister ==
    /\ call.fn = "risk_register"
    /\ ret = NoRet
    /\ LET risks == _extract_risks(call.all_synthesis)
       IN  ret' = IF risks.raised # None THEN risks
                  ELSE Returns([risks |-> risks.value,
                                overall_risk_level |-> RiskLevel(risks.value)])
    /\ UNCHANGED <<service, orchestrator, call>>

SpecRegister == InitRegister /\ [][BuildRegister]_vars

\* --------------- knowledge_curator.py: _categorize_by_confidence, one call
MaxTriaged == 2       \* candidates handed to _categorize_by_confidence

\* deduplicated candidates: confidences at and beside the thresholds,
\* without contradicting_agents, with none and with one
TriageChoices ==
    LET plain == {Candidate(<<[c |-> "a", n |-> 1]>>, <<[c |-> "b", n |-> 1]>>, confidence) :
                     confidence \in {0, 39, 40, 59, 60, 69, 70, 100}}
    IN  plain
            \cup {c @@ [contradicting_agents |-> List(<<>>)] : c \in plain}
            \cup {c @@ [contradicting_agents |-> List(<<Str(<<[c |-> "A", n |-> 1]>>)>>)] :
                     c \in plain}

TriageCalls ==
    {[fn |-> "_categorize_by_confidence", candidates |-> candidates] :
        candidates \in UNION {[1..n -> TriageChoices] : n \in 0..MaxTriaged}}

InitTriage == InitCall(TriageCalls)

\* knowledge_curator.py:507-508  verified, contested, rejected =
\* self._categorize_by_confidence(unique_candidates)
CategorizeByConfidence ==
    /\ call.fn = "_categorize_by_confidence"
    /\ ret = NoRet
    /\ ret' = Returns([verified |-> Categorized(call.candidates, "verified"),
                       contested |-> Categorized(call.candidates, "contested"),
                       rejected |-> Categorized(call.candidates, "rejected")])
    /\ UNCHANGED <<service, orchestrator, call>>

SpecTriage == InitTriage /\ [][CategorizeByConfidence]_vars

\* ------------------- knowledge_curator.py: the fallback top-up, one call each
MaxVerified == 6      \* candidates the LLM extraction returned to curate

\* the k-th candidate of an extraction: content and summary of its own (k
\* times "a", k times "b"), verified (0.9) or contested (0.5); the first
\* may carry the summary of a fallback emission instead
TopUpItems(k) ==
    {Candidate(<<[c |-> "a", n |-> k]>>, summary, confidence) :
        summary \in {<<[c |-> "b", n |-> k]>>}
                        \cup (IF k = 1 THEN {Lit("Resource sizing guidelines")} ELSE {}),
        confidence \in {90, 50}}

RECURSIVE TopUpLists(_)
TopUpLists(n) ==
    IF n = 0 THEN {<<>>}
    ELSE {Append(raw, c) : raw \in TopUpLists(n - 1), c \in TopUpItems(n)}

TopUpCalls ==
    {[fn |-> "curate", raw_candidates |-> List(raw), program |-> program] :
        raw \in UNION {TopUpLists(n) : n \in 0..MaxVerified},
        program \in CuratePrograms}

InitTopUp == InitCall(TopUpCalls)

SpecTopUp == InitTopUp /\ [][CurateLedger]_vars

\* ------------------------------------------------------------ properties
NonTerminal == {"pending", "running"}

JobsOf(session_id) ==
    {j \in DOMAIN jobs_store : jobs_store[j].session_id = session_id}

\* C1: a start request that finds the first job of its session still
\* pending or running (the second of two concurrent starts of a session
\* without a job) succeeds with the job id the first start returned, and
\* the session has exactly one job record.
C1_ConcurrentStartsOneJob ==
    (resp.op = "start" /\ resp.sid # "" /\ resp.existing # 0
        /\ resp.existing = firstReturned[resp.sid])
    => /\ resp.code = 200
       /\ resp.job_id = firstReturned[resp.sid]
       /\ Cardinality(JobsOf(resp.sid)) = 1

\* C2: for each non-empty session id at most one job created for that
\* session is pending or running.
C2_OneActiveJobPerSession ==
    \A s \in Sessions \ {""} :
        Cardinality({j \in JobsOf(s) : jobs_store[j].status \in NonTerminal}) <= 1

C2_Witness ==
    \E j1, j2 \in JobsOf("a") :
        /\ jobs_store[j1].status \in Terminal
        /\ jobs_store[j2].status = "running"

\* C3: every start request ends with a successful response carrying a job
\* id and a status; when the session's job is still pending or running the
\* id is that job's, and no job record and no worker is added.
C3_StartAlwaysSucceeds ==
    resp.op = "start"
    => /\ resp.code = 200
       /\ resp.job_id # 0
       /\ resp.status # None
       /\ resp.existing # 0 =>
             /\ resp.job_id = resp.existing
             /\ Len(jobs_store) = resp.records
             /\ Len(workers) = resp.records

\* C4 as claimed: a session id present in the index maps to a job that is
\* pending or running.
C4_IndexMapsToActive ==
    \A s \in Sessions \ {""} :
        session_to_job[s] # 0 =>
            jobs_store[session_to_job[s]].status \in NonTerminal

\* C4 amended: the index entry of a session stays when its job ends and is
\* replaced by the next start of the session: a session id present in the
\* index maps to the job created last for that session, every other job of
\* the session is completed or failed, and a session with a job is indexed.
C4_IndexMapsToLatest ==
    \A s \in Sessions \ {""} :
        /\ session_to_job[s] # 0 =>
              /\ session_to_job[s] \in JobsOf(s)
              /\ \A j \in JobsOf(s) \ {session_to_job[s]} :
                     /\ j < session_to_job[s]
                     /\ jobs_store[j].status \in Terminal
        /\ JobsOf(s) # {} => session_to_job[s] # 0

C4_Witness ==
    /\ session_to_job["a"] = 2
    /\ JobsOf("a") = {1, 2}
    /\ jobs_store[2].status = "failed"
    /\ jobs_store[2].error # None

\* C5: a job record is created pending, its status changes only from
\* pending to running and from running to completed or failed, and a
\* completed or failed status never changes.
C5_StatusTransitions ==
    [][/\ \A j \in DOMAIN jobs_store :
              /\ j \in DOMAIN jobs_store'
              /\ jobs_store'[j].status # jobs_store[j].status =>
                    <<jobs_store[j].status, jobs_store'[j].status>> \in
                        {<<"pending", "running">>, <<"running", "completed">>,
                         <<"running", "failed">>}
       /\ \A j \in DOMAIN jobs_store' \ DOMAIN jobs_store :
              jobs_store'[j].status = "pending"]_vars

C5_Witness ==
    /\ resp.op = "fetch"
    /\ resp.code = 200
    /\ jobs_store[resp.job].status = "completed"

\* C6: the progress values successive polls of a job return are within
\* 0..100 and never decrease.
C6_PollProgressMonotone ==
    [][/\ polled'.job # 0 => polled'.progress \in 0..100
       /\ (polled.job # 0 /\ polled'.job = polled.job) =>
              polled'.progress >= polled.progress]_vars

C6_Witness ==
    /\ resp.op = "poll"
    /\ resp.code = 200
    /\ resp.current_round = MaxRounds
    /\ resp.progress = 80

\* C7: the current_round values successive polls of a job return never
\* decrease.
C7_PollRoundMonotone ==
    [][(polled.job # 0 /\ polled'.job = polled.job) =>
           polled'.current_round >= polled.current_round]_vars

\* C8: a job's result is set only if its status is completed, its error
\* only if its status is failed, and never both.
C8_ResultAndErrorMatchStatus ==
    \A j \in DOMAIN jobs_store :
        /\ jobs_store[j].result # None => jobs_store[j].status = "completed"
        /\ jobs_store[j].error # None => jobs_store[j].status = "failed"
        /\ ~(jobs_store[j].result # None /\ jobs_store[j].error # None)

C8_Witness ==
    \E j \in DOMAIN jobs_store :
        /\ jobs_store[j].status = "completed"
        /\ jobs_store[j].result # None
        /\ workers[j].pc = "done"

\* C9: fetch_result on a known job answers the in-progress marker (202,
\* job id, status, no result) while the job is pending or running, fails
\* with the job's captured error when it is failed, and returns the stored
\* output only when it is completed.
C9_FetchResultByStatus ==
    (resp.op = "fetch" /\ resp.code # 404)
    => /\ resp.code \in {200, 202, 500}
       /\ jobs_store[resp.job].status \in NonTerminal => resp.code = 202
       /\ resp.code = 202 =>
             /\ resp.job_id = resp.job
             /\ resp.status = jobs_store[resp.job].status
             /\ resp.body = None
       /\ resp.code = 500 =>
             /\ jobs_store[resp.job].status = "failed"
             /\ resp.error # None
             /\ resp.body = None
       /\ resp.code = 200 =>
             /\ jobs_store[resp.job].status = "completed"
             /\ resp.body # None
             /\ resp.body = jobs_store[resp.job].result

\* C10: a poll or a fetch answers 404 exactly when no start request has
\* returned the job id, and every id a start request returned is still in
\* the registry.
C10_NotFoundIffNeverReturned ==
    /\ resp.op \in {"poll", "fetch"} =>
           (resp.code = 404 <=> resp.job \notin returned)
    /\ returned \subseteq DOMAIN jobs_store

C10_Witness ==
    /\ resp.op = "poll"
    /\ resp.code = 200
    /\ resp.status = "failed"
    /\ resp.error # None
    /\ Len(jobs_store) = MaxJobs

\* main.py:211-218  the worker of job j has caught an exception
Raised(j) == j \in DOMAIN workers /\ workers[j].exc # None

\* main.py:216-217  what the except clause leaves in the record of job j
FailedWithError(j) ==
    /\ j \in DOMAIN jobs_store
    /\ jobs_store[j].status = "failed"
    /\ jobs_store[j].error # None
    /\ jobs_store[j].result = None

C12_EndsCompleted ==
    \A j \in DOMAIN workers :
        (/\ workers[j].pc = "done"
         /\ workers[j].exc \notin
                {"ANTHROPIC_API_KEY environment variable not set",
                 "orchestration failed", "curation failed"})
        => /\ jobs_store[j].status = "completed"
           /\ jobs_store[j].progress = 100
           /\ jobs_store[j].result # None

\* the log holds the entry e
Logged(e) == \E k \in DOMAIN conversation_log : conversation_log[k] = e

\* C13: a step in which the agent pass or the synthesis pass of a round
\* raises appends exactly the error entry of that round to the conversation
\* log, moves on to the next configured round and leaves the run without a
\* result or exception of its own; and a run that has ended has started
\* every configured round, whichever of them failed.
C13_RoundFailureRecorded ==
    /\ [][(/\ gpc \in {"kickoff", "synthesis"}
           /\ gpc' = "round"
           /\ all_synthesis_outputs' = all_synthesis_outputs)
          => /\ conversation_log' =
                    Append(conversation_log,
                           Entry(round_num, "system", "error", 0))
             /\ round_index' = round_index + 1
             /\ crew_result' = NoRet]_vars
    /\ [](gpc = "done" =>
              \A k \in DOMAIN round_config :
                  Logged(Entry(round_config[k].round, "system", "start", 0)))

C13_Witness ==
    /\ gpc = "done"
    /\ crew_result.raised = None
    /\ Len(all_synthesis_outputs) = 1
    /\ Logged(Entry(1, "system", "error", 0))
    /\ Logged(Entry(2, "program_coordinator", "synthesis", 0))

\* the fenced block of a text: present when an opening fence is followed by
\* a closing one
HasBlock(text) == json_start(text) # -1 /\ json_end(text) # -1

\* a list whose items are all objects
ListOfObjects(v) == v.t = "list" /\ \A k \in DOMAIN v.a : v.a[k].t = "dict"

\* the structured block of an output text is as the extractor fn expects
\* it: a fenced block of valid JSON that is an object whose key, if there,
\* holds a list of objects; for the knowledge candidates a list of objects,
\* fenced or bare
WellFormed(fn, text) ==
    LET data == IF HasBlock(text) THEN json_loads(json_str(text))
                ELSE json_loads(json_match(text))
    IN  /\ fn = "_parse_candidates" \/ HasBlock(text)
        /\ data.raised = None
        /\ IF fn = "_parse_candidates" THEN ListOfObjects(data.value)
           ELSE /\ data.value.t = "dict"
                /\ ListOfObjects(Get(data.value, BlockKey(fn), List(<<>>)))

\* what an extractor returns when it extracted nothing: no decision, no
\* candidate, and the defaults that stand for no workstream, risk or resource
NothingExtracted(fn, value) ==
    CASE fn = "_extract_decisions" -> value = <<>>
      [] fn = "_extract_workstreams" -> value = _generate_default_workstreams("Acme")
      [] fn = "_extract_risks" -> value = DefaultRisks
      [] fn = "_extract_resources" -> value = DefaultResources
      [] OTHER -> value = List(<<>>)

\* C14: an extractor called with a text whose structured block is absent or
\* malformed (no fence, unterminated fence, invalid JSON, a top-level array
\* or scalar, list items that are not objects) returns having extracted
\* nothing and raises nothing.
C14_MalformedGivesEmpty ==
    (ret # NoRet /\ ~WellFormed(call.fn, call.text))
        => ret.raised = None /\ NothingExtracted(call.fn, ret.value)

\* the items of "workstream_updates" in the block of one round's synthesis,
\* none if the synthesis has no block of valid JSON
RoundUpdates(text) ==
    IF HasBlock(text) /\ json_loads(json_str(text)).raised = None
    THEN Get(json_loads(json_str(text)).value, "workstream_updates", List(<<>>)).a
    ELSE <<>>

\* the workstream updates of all rounds, in round order
AllUpdates ==
    Flatten([k \in DOMAIN all_synthesis_outputs |->
                RoundUpdates(all_synthesis_outputs[k])])

\* generate has returned a program
Generated == gpc = "done" /\ crew_result.raised = None

\* C15: the final workstream list holds exactly one workstream per distinct
\* name in any round's workstream_updates, and each takes all its fields
\* from the first update of its name in round order.
C15_FirstOccurrenceWins ==
    (Generated /\ AllUpdates # <<>>) =>
        LET workstreams == crew_result.value.program.workstreams
            first(name) == CHOOSE i \in DOMAIN AllUpdates :
                               /\ AllUpdates[i].name.s = name
                               /\ \A h \in 1..(i - 1) : AllUpdates[h].name.s # name
        IN  /\ \A k, l \in DOMAIN workstreams :
                   workstreams[k].name = workstreams[l].name => k = l
            /\ {workstreams[k].name : k \in DOMAIN workstreams}
                   = {AllUpdates[i].name.s : i \in DOMAIN AllUpdates}
            /\ \A k \in DOMAIN workstreams :
                   LET ws == AllUpdates[first(workstreams[k].name)]
                   IN  /\ workstreams[k].description = ws.description.s
                       /\ workstreams[k].owner = ws.owner.s
                       /\ workstreams[k].start_month = ws.startMonth.n
                       /\ workstreams[k].end_month = ws.endMonth.n
                       /\ workstreams[k].deliverables[1].due_month = ws.endMonth.n

\* rounds giving [A, B] then [A, C] yield A from round 1, then B, then C
C15_Witness ==
    /\ Generated
    /\ Len(AllUpdates) = 4
    /\ AllUpdates[1].description.s = "first"
    /\ AllUpdates[3].description.s = "second"
    /\ LET workstreams == crew_result.value.program.workstreams
       IN  /\ [k \in DOMAIN workstreams |-> workstreams[k].name] = <<"A", "B", "C">>
           /\ workstreams[1].description = "first"
           /\ workstreams[1].end_month = 4

\* C16: when no workstream is extracted from any round, the final program
\* has exactly the three default workstreams Strategy & Planning, Capability
\* Development, Execution & Delivery in this order; the first depends on
\* nothing, the second on the first, the third on the first and the second,
\* and the timeline's total_months is 6.
C16_DefaultWorkstreams ==
    (Generated /\ AllUpdates = <<>>) =>
        LET workstreams == crew_result.value.program.workstreams
        IN  /\ [k \in DOMAIN workstreams |-> workstreams[k].name]
                   = <<"Strategy & Planning", "Capability Development",
                       "Execution & Delivery">>
            /\ workstreams[1].dependencies = <<>>
            /\ workstreams[2].dependencies = <<workstreams[1].id>>
            /\ workstreams[3].dependencies = <<workstreams[1].id, workstreams[2].id>>
            /\ workstreams[1].id # workstreams[2].id
            /\ crew_result.value.program.timeline.total_months = 6

\* every round failed or was skipped, and generate returned the defaults
C16_Witness ==
    /\ Generated
    /\ all_synthesis_outputs = <<>>
    /\ Len(round_config) = MaxCrewRounds
    /\ Logged(Entry(1, "system", "error", 0))
    /\ Len(crew_result.value.program.workstreams) = 3
    /\ crew_result.value.program.timeline.total_months = 6

\* a budget constraint is supplied: the input has constraints whose budget
\* has a value, 0 included
BudgetSupplied(constraints) ==
    constraints.t # "null" /\ constraints.budget.t # "null"

\* the amounts of the plan before any scaling: capex 50000 and 25000, opex
\* a sixth of the resource plan's total cost and 10000
UnscaledAmounts(resources) ==
    [capex |-> <<Whole(50000), Whole(25000)>>,
     opex |-> <<Over(TotalCost(resources), Whole(6)), Whole(10000)>>]

\* the total of the plan before any scaling: capex plus six months of opex
UnscaledTotal(resources) ==
    LET amounts == UnscaledAmounts(resources)
    IN  Plus(Plus(amounts.capex[1], amounts.capex[2]),
             Times(Plus(amounts.opex[1], amounts.opex[2]), Whole(6)))

\* C17: when a budget constraint is supplied (any value, 0 included) and the
\* computed total exceeds it, total_budget equals the constraint, every
\* capex and opex amount is multiplied by constraint/computed-total and
\* contingency is a tenth of the new total_budget; otherwise no amount is
\* changed.
C17_BudgetScaling ==
    ret # NoRet =>
        LET plan == ret.value
            amounts == UnscaledAmounts(call.resources)
            total == UnscaledTotal(call.resources)
            exceeds == /\ BudgetSupplied(call.constraints)
                       /\ Greater(total, Whole(call.constraints.budget.n))
            ratio == IF exceeds
                     THEN Over(Whole(call.constraints.budget.n), total)
                     ELSE Whole(1)
        IN  /\ plan.total_budget = IF exceeds
                                   THEN Whole(call.constraints.budget.n)
                                   ELSE total
            /\ \A k \in 1..2 :
                   /\ plan.capex[k].amount = Times(amounts.capex[k], ratio)
                   /\ plan.opex[k].amount = Times(amounts.opex[k], ratio)
            /\ plan.contingency = Times(plan.total_budget, Fraction(1, 10))

\* a candidate that validation has to keep: it has content, summary, type,
\* scope and confidence, its type and scope are in the taxonomies and its
\* confidence is a number in [0, 1]
Acceptable(candidate) ==
    /\ candidate.t = "dict"
    /\ {"content", "summary", "type", "scope", "confidence"} \subseteq DOMAIN candidate
    /\ candidate.type.t = "str" /\ candidate.type.s \in KNOWLEDGE_TYPES
    /\ candidate.scope.t = "str" /\ candidate.scope.s \in KNOWLEDGE_SCOPES
    /\ candidate.confidence.t = "num"
    /\ candidate.confidence.n >= 0
    /\ candidate.confidence.n <= 100

\* the entry of a ledger list is the emission of the candidate
EmissionOf(entry, candidate, program) ==
    \E status \in {"verified", "contested", "hypothesis"} :
        LET emission == _create_emission(candidate, program, status)
        IN  emission.raised = None /\ emission.value = entry

\* the entries of the three lists of a ledger that come from candidates
CandidateEntries(ledger, program) ==
    ({ledger.emissions[k] : k \in DOMAIN ledger.emissions}
         \ {_generate_fallback_emissions(program)[k] :
               k \in DOMAIN _generate_fallback_emissions(program)})
        \cup {ledger.contested[k] : k \in DOMAIN ledger.contested}
        \cup {ledger.rejected[k] : k \in DOMAIN ledger.rejected}

\* C18: a candidate that lacks content, summary, type, scope or confidence,
\* whose type or scope is outside the taxonomies, or whose confidence is no
\* number or outside [0, 1] is in none of the ledger's verified, contested
\* and rejected lists: every entry of them is the emission of a candidate
\* without any of these defects.
C18_InvalidDropped ==
    (call.fn = "curate" /\ ret # NoRet /\ ret.raised = None) =>
        \A entry \in CandidateEntries(ret.value, call.program) :
            \E k \in DOMAIN call.raw_candidates.a :
                /\ Acceptable(call.raw_candidates.a[k])
                /\ EmissionOf(entry, call.raw_candidates.a[k], call.program)

\* C19: deduplicating the output of a deduplication returns the same list
\* in the same order and counts no duplicate.
C19_DedupIdempotent ==
    (call.fn = "_deduplicate_candidates" /\ ret # NoRet /\ ret.raised = None) =>
        _deduplicate_candidates(ret.value.unique)
            = Returns([unique |-> ret.value.unique, duplicates |-> 0])

\* a deduplication that removed a candidate and kept two
C19_Witness ==
    /\ call.fn = "_deduplicate_candidates"
    /\ ret # NoRet
    /\ ret.raised = None
    /\ ret.value.duplicates >= 1
    /\ Len(ret.value.unique) = 2
    /\ Len(call.candidates) = MaxCandidates

\* C20: the similarity score of A and B is the score of B and A, and it is 0
\* when either has no word.
C20_SimilaritySymmetric ==
    (call.fn = "_similarity_score" /\ ret # NoRet) =>
        /\ ret.value = _similarity_score(call.s2, call.s1)
        /\ (Words(call.s1, <<>>) = {} \/ Words(call.s2, <<>>) = {})
               => ret.value = Fraction(0, 1)

\* a score of one half between strs of one and of two words
C20_Witness ==
    /\ call.fn = "_similarity_score"
    /\ ret # NoRet
    /\ Cardinality(Words(call.s1, <<>>)) = 1
    /\ Cardinality(Words(call.s2, <<>>)) = 2
    /\ ret.value = Fraction(1, 2)

\* the valid candidates of a curation run that remain after deduplication
RemainingCandidates(raw_candidates) ==
    _deduplicate_candidates(
        ValidCandidates(Iterate(raw_candidates).value, 1, <<>>).value).value.unique

\* curate has returned a ledger
Curated == call.fn = "curate" /\ ret # NoRet /\ ret.raised = None

\* C21: in the ledger of every curation run stats.verified + stats.contested
\* + stats.rejected is the number of valid candidates that remain after
\* deduplication, also when fallback emissions were added.
C21_StatsSumToCandidates ==
    Curated =>
        ret.value.stats.verified + ret.value.stats.contested
                + ret.value.stats.rejected
            = Len(RemainingCandidates(call.raw_candidates))

\* C22: when the curator obtains zero raw candidates, the ledger's emissions
\* are exactly the fallback emissions and there is at least one, contested
\* and rejected are empty, stats.total_candidates is 0 and stats.verified
\* and stats.emitted are the number of fallback emissions.
C22_ZeroCandidatesFallback ==
    (Curated /\ call.raw_candidates = List(<<>>)) =>
        /\ ret.value.emissions = _generate_fallback_emissions(call.program)
        /\ ret.value.emissions # <<>>
        /\ ret.value.contested = <<>>
        /\ ret.value.rejected = <<>>
        /\ ret.value.stats.total_candidates = 0
        /\ ret.value.stats.verified = Len(_generate_fallback_emissions(call.program))
        /\ ret.value.stats.emitted = ret.value.stats.verified

\* a run without candidates for the default program: five fallback emissions
C22_Witness ==
    /\ Curated
    /\ call.raw_candidates = List(<<>>)
    /\ Len(call.program.workstreams) = 3
    /\ Len(ret.value.emissions) = 5
    /\ ret.value.stats.verified = 5

\* the extraction of knowledge candidates failed: the LLM call raised, or
\* its answer holds no structured block, unparseable JSON or JSON that is
\* not a list of candidate objects
ExtractionFailed(result) ==
    result.raised # None \/ ~WellFormed("_parse_candidates", result.value)

\* C23: a failed extraction of knowledge candidates yields zero candidates
\* and the curation run still returns a ledger; nothing is raised out of
\* the curator.
C23_ExtractionFailureTolerated ==
    (call.fn = "curate" /\ ret # NoRet /\ ExtractionFailed(call.result)) =>
        /\ ret.raised = None
        /\ ret.value.stats.total_candidates = 0

\* C24: whatever the interleaving of the worker's writes with polls and
\* fetches, a response that shows status completed shows progress 100 and,
\* for a fetch, the result; a response that shows status failed carries the
\* error.
C24_TerminalStatusComplete ==
    /\ (resp.op = "poll" /\ resp.status = "completed") => resp.progress = 100
    /\ (resp.op = "fetch" /\ resp.status = "completed")
           => resp.code = 200 /\ resp.body # None
    /\ (resp.op \in {"poll", "fetch"} /\ resp.status = "failed")
           => resp.error # None

\* C25: the error that a poll and a fetch expose for a failed job is a
\* truncated message: whatever the length of the exception text, it is no
\* longer than its prefix and the MessageLimit characters the code cuts
\* exception texts to.
C25_ErrorTruncated ==
    (call.fn = "except" /\ ret # NoRet) =>
        /\ StrLen(ret.value.poll_error)
               <= StrLen(Lit("Generation failed: ")) + MessageLimit
        /\ StrLen(ret.value.fetch_detail)
               <= StrLen(Lit("Generation failed: ")) + MessageLimit

\* C26: a start request for a session whose indexed job is completed or
\* failed creates a job with a new id, pending with progress 0, points the
\* session index at it, and leaves the record of the old job as it was and
\* still in the registry.
C26_RestartAfterTerminal ==
    [][\A s \in Sessions \ {""} :
          (/\ resp'.op = "start"
           /\ resp'.sid = s
           /\ session_to_job[s] \in DOMAIN jobs_store
           /\ jobs_store[session_to_job[s]].status \in Terminal)
          => LET old == session_to_job[s]
                 new == resp'.job_id
             IN  /\ resp'.code = 200
                 /\ resp'.status = "pending"
                 /\ new \notin DOMAIN jobs_store
                 /\ new \in DOMAIN jobs_store'
                 /\ jobs_store'[new].status = "pending"
                 /\ jobs_store'[new].progress = 0
                 /\ session_to_job'[s] = new
                 /\ old \in DOMAIN jobs_store'
                 /\ jobs_store'[old] = jobs_store[old]]_vars

C26_Witness ==
    /\ resp.op = "start"
    /\ resp.sid = "a"
    /\ resp.records = 1
    /\ resp.job_id = 2
    /\ session_to_job["a"] = 2
    /\ jobs_store[1].session_id = "a"
    /\ jobs_store[1].status = "failed"
    /\ jobs_store[1].error # None
    /\ jobs_store[2].status = "pending"

\* the entries of the log that have the kind
OfKind(kind) == SelectSeq(conversation_log, LAMBDA e : e.kind = kind)

\* C27: a run that has ended has visited every configured round exactly
\* once and in order, and has returned a program, whichever rounds failed;
\* its rounds_completed is the number of rounds whose synthesis pass
\* returned and is at most the number of configured rounds.
C27_VisitsEveryRoundAndReturns ==
    gpc = "done" =>
        /\ Len(OfKind("start")) = Len(round_config)
        /\ \A k \in DOMAIN round_config :
               OfKind("start")[k].round = round_config[k].round
        /\ crew_result.raised = None
        /\ crew_result.value.rounds_completed = Len(OfKind("synthesis"))
        /\ crew_result.value.rounds_completed <= Len(round_config)

\* the entries of the log that round r has of the kind
OfRound(r, kind) ==
    SelectSeq(conversation_log, LAMBDA e : e.round = r /\ e.kind = kind)

\* the round r has ended without an exception: its synthesis is logged and
\* no error entry follows
RoundReturned(r) == OfRound(r, "synthesis") # <<>> /\ OfRound(r, "error") = <<>>

\* C28: for every round that did not fail the log holds exactly one entry
\* for each agent turn of the round (one turn per task of the round),
\* whatever the agents returned, and exactly one synthesis entry of the
\* coordinator.
C28_EveryTurnLogged ==
    \A k \in DOMAIN round_config :
        RoundReturned(round_config[k].round) =>
            /\ Len(OfRound(round_config[k].round, "turn")) = round_config[k].tasks
            /\ Len(OfRound(round_config[k].round, "synthesis")) = 1

\* C29: the conversation log only grows at its end, its entries are in the
\* order of the rounds, and in a round that did not fail the one synthesis
\* entry comes after every agent entry of the round and before every entry
\* of a later round.
C29_LogAppendOnlyOrdered ==
    /\ [][/\ Len(conversation_log') >= Len(conversation_log)
           /\ SubSeq(conversation_log', 1, Len(conversation_log))
                  = conversation_log]_vars
    /\ [](\A i, j \in DOMAIN conversation_log :
              /\ i < j => conversation_log[i].round <= conversation_log[j].round
              /\ (/\ conversation_log[i].kind = "synthesis"
                  /\ RoundReturned(conversation_log[i].round)
                  /\ j # i)
                 => IF conversation_log[j].round = conversation_log[i].round
                    THEN j < i /\ conversation_log[j].kind # "synthesis"
                    ELSE (j < i) = (conversation_log[j].round
                                        < conversation_log[i].round))

C29_Witness ==
    /\ Len(conversation_log) = 5
    /\ conversation_log[2] = Entry(1, "agent", "turn", 1)
    /\ conversation_log[3] = Entry(1, "agent", "turn", 2)
    /\ conversation_log[4] = Entry(1, "program_coordinator", "synthesis", 0)
    /\ conversation_log[5] = Entry(2, "system", "start", 0)
    /\ RoundReturned(1)

\* the characters of the i-th output that the task description holds
RECURSIVE Kept(_, _)
Kept(s, i) ==
    IF s = <<>> THEN 0
    ELSE (IF Head(s).c = Marker(i) THEN Head(s).n ELSE 0) + Kept(Tail(s), i)

\* C30: when the joined outputs of a round are longer than the synthesis
\* budget, the text that is removed comes from the oldest outputs: an
\* output loses text only if every older output is removed entirely, so
\* the most recent outputs are retained.
C30_OldestRemovedFirst ==
    (/\ call.fn = "_create_synthesis_task"
     /\ ret # NoRet
     /\ StrLen(outputs_summary(call.round_outputs, 1)) > SummaryLimit)
    => \A i, j \in DOMAIN call.round_outputs :
           (/\ i < j
            /\ Kept(ret.value, j) < StrLen(call.round_outputs[j]))
           => Kept(ret.value, i) = 0

\* what the extractor fn gives for the text
Extracted(fn, text) ==
    CASE fn = "_extract_decisions" -> _extract_decisions(text, 1)
      [] fn = "_extract_workstreams" -> _extract_workstreams(<<text>>, "Acme")
      [] fn = "_extract_risks" -> _extract_risks(<<text>>)
      [] fn = "_extract_resources" -> _extract_resources(<<text>>)
      [] OTHER -> _parse_candidates(text)

\* the JSON literals of a text that stand outside a fenced block
BareLiterals(text) ==
    {i \in DOMAIN text :
        /\ text[i].k = "json"
        /\ ~(HasBlock(text) /\ json_start(text) < i /\ i < json_end(text))}

\* the text reduced to the content that is to be read: the fenced block if
\* there is one, else the first bare literal, else the text as it is
Preferred(text) ==
    IF HasBlock(text) THEN <<FenceJson>> \o json_str(text) \o <<Fence>>
    ELSE IF BareLiterals(text) # {}
    THEN <<FenceJson, text[MinOf(BareLiterals(text))], Fence>>
    ELSE text

\* C31: every extractor (decisions, workstreams, risks, resources,
\* knowledge candidates) reads the fenced block of a text when there is
\* one, also when a bare literal stands beside it, and reads the first bare
\* array or object literal when there is no fenced block.
C31_BareLiteralFallback ==
    (call.fn \in Extractors /\ ret # NoRet) =>
        ret = Extracted(call.fn, Preferred(call.text))

\* C32: in every program a run returns, each id in the dependencies of a
\* workstream is the id of a workstream of the same program, for extracted
\* workstreams and for the default ones.
C32_DependenciesResolve ==
    Generated =>
        LET workstreams == crew_result.value.program.workstreams
        IN  \A k \in DOMAIN workstreams :
                \A d \in DOMAIN workstreams[k].dependencies :
                    \E l \in DOMAIN workstreams :
                        workstreams[l].id = workstreams[k].dependencies[d]

\* the defaults are returned, the third depending on the first and second
C32_Witness ==
    /\ Generated
    /\ AllUpdates = <<>>
    /\ LET workstreams == crew_result.value.program.workstreams
       IN  /\ Len(workstreams) = 3
           /\ workstreams[3].dependencies = <<workstreams[1].id, workstreams[2].id>>
           /\ workstreams[2].dependencies = <<workstreams[1].id>>

\* the workstreams and the timeline of a program have been built
Built == call.fn = "_build_timeline" /\ ret # NoRet /\ ret.raised = None

\* C33: every workstream of a program has start_month <= end_month,
\* whatever startMonth and endMonth the workstream updates of the syntheses
\* name or leave out.
C33_StartNotAfterEnd ==
    Built => \A k \in DOMAIN ret.value.workstreams :
                 ret.value.workstreams[k].start_month
                     <= ret.value.workstreams[k].end_month

\* C34: the phases of the timeline of a non-empty workstream list follow
\* one another without gap or overlap: the first starts at the least
\* start_month, each next one starts the month after the one before ends,
\* the last ends at the greatest end_month, and total_months is the
\* greatest end_month.
C34_PhasesCoverRange ==
    (Built /\ ret.value.workstreams # <<>>) =>
        LET workstreams == ret.value.workstreams
            phases == ret.value.timeline.phases
            min_start == MinOf({workstreams[k].start_month : k \in DOMAIN workstreams})
            max_end == MaxOf({workstreams[k].end_month : k \in DOMAIN workstreams})
        IN  /\ phases # <<>>
            /\ phases[1].start_month = min_start
            /\ phases[Len(phases)].end_month = max_end
            /\ \A p \in DOMAIN phases : phases[p].start_month <= phases[p].end_month
            /\ \A p \in 1..(Len(phases) - 1) :
                   phases[p + 1].start_month = phases[p].end_month + 1
            /\ ret.value.timeline.total_months = max_end

\* C35: every phase of a timeline, the last one included, spans at least
\* two months, whatever the month ranges of the workstreams.
C35_PhasesSpanTwoMonths ==
    Built => \A p \in DOMAIN ret.value.timeline.phases :
                 ret.value.timeline.phases[p].end_month
                     - ret.value.timeline.phases[p].start_month + 1 >= 2

\* the number of the risks that have the impact
WithImpact(risks, impact) == Len(SelectSeq(risks, LAMBDA r : r.impact = impact))

\* C36: the risk list of a register is never empty (two default risks
\* stand in when none is extracted), and its overall_risk_level is high
\* exactly when more than half of the risks have impact high, low exactly
\* when that is not so and more than half have impact low, and medium in
\* every other case, an even split included.
C36_RiskLevelByMajority ==
    (call.fn = "risk_register" /\ ret # NoRet) =>
        /\ ret.raised = None
        /\ ret.value.risks # <<>>
        /\ LET risks == ret.value.risks
               mostlyHigh == 2 * WithImpact(risks, "high") > Len(risks)
               mostlyLow == 2 * WithImpact(risks, "low") > Len(risks)
           IN  /\ (ret.value.overall_risk_level = "high") = mostlyHigh
               /\ (ret.value.overall_risk_level = "low") = (~mostlyHigh /\ mostlyLow)
               /\ (ret.value.overall_risk_level = "medium") = (~mostlyHigh /\ ~mostlyLow)
               /\ (call.all_synthesis[1][3].v.risks_identified.a = <<>>)
                      => ret.value.risks = DefaultRisks

\* an even split: one risk of impact high and one of impact low
C36_Witness ==
    /\ call.fn = "risk_register"
    /\ ret # NoRet
    /\ Len(ret.value.risks) = 2
    /\ ret.value.risks[1].impact = "high"
    /\ ret.value.risks[2].impact = "low"
    /\ ret.value.overall_risk_level = "medium"

\* candidate a repeats candidate b: the same summary up to case and
\* surrounding blanks, or contents whose first hundred characters, in lower
\* case, score above 0.8
Repeats(a, b) ==
    \/ Strip(Lower(a.summary.s)) = Strip(Lower(b.summary.s))
    \/ Greater(_similarity_score(Lower(Take(a.content.s, 100)),
                                 Lower(Take(b.content.s, 100))),
               Fraction(8, 10))

\* the positions among the first i candidates that are accepted when the
\* candidates are taken in input order
RECURSIVE AcceptedOf(_, _)
AcceptedOf(candidates, i) ==
    IF i = 0 THEN {}
    ELSE LET before == AcceptedOf(candidates, i - 1)
         IN  IF \E j \in before : Repeats(candidates[i], candidates[j])
             THEN before
             ELSE before \cup {i}

\* C37: deduplication takes the candidates in input order and keeps the
\* first of each group of duplicates: a candidate is dropped exactly when
\* its summary, lower-cased and trimmed, is that of a candidate accepted
\* before it or its content prefix scores above 0.8 against that of a
\* candidate accepted before it; the kept candidates and the duplicate
\* count add up to the number of candidates.
C37_FirstSeenWins ==
    (call.fn = "_deduplicate_candidates" /\ ret # NoRet) =>
        LET candidates == call.candidates
            accepted == AcceptedOf(candidates, Len(candidates))
            kept(c) == \E i \in accepted : candidates[i] = c
        IN  /\ ret.raised = None
            /\ Len(ret.value.unique) = Cardinality(accepted)
            /\ \A i, j \in accepted :
                   i < j => \E k, l \in DOMAIN ret.value.unique :
                                /\ k < l
                                /\ ret.value.unique[k] = candidates[i]
                                /\ ret.value.unique[l] = candidates[j]
            /\ \A k \in DOMAIN ret.value.unique : kept(ret.value.unique[k])
            /\ ret.value.duplicates = Len(candidates) - Cardinality(accepted)
            /\ Len(ret.value.unique) + ret.value.duplicates = Len(candidates)

\* the second candidate repeats the summary of the first in another case,
\* the third its content under another summary: only the first is kept
C37_Witness ==
    /\ call.fn = "_deduplicate_candidates"
    /\ ret # NoRet
    /\ Len(call.candidates) = 3
    /\ call.candidates[2].summary # call.candidates[1].summary
    /\ Strip(Lower(call.candidates[2].summary.s))
           = Strip(Lower(call.candidates[1].summary.s))
    /\ Strip(Lower(call.candidates[3].summary.s))
           # Strip(Lower(call.candidates[1].summary.s))
    /\ call.candidates[3].content # call.candidates[1].content
    /\ ret.value.unique = <<call.candidates[1]>>
    /\ ret.value.duplicates = 2

\* the list the triage rule names for a candidate, confidences in hundredths
TriageOf(candidate) ==
    LET contradicted == /\ "contradicting_agents" \in DOMAIN candidate
                        /\ candidate.contradicting_agents.a # <<>>
        confidence == candidate.confidence.n
    IN  IF contradicted
        THEN (IF confidence >= 60 THEN "contested" ELSE "rejected")
        ELSE IF confidence >= 70 THEN "verified"
        ELSE IF 40 <= confidence /\ confidence < 70 THEN "contested"
        ELSE "rejected"

\* C38: triage puts every deduplicated candidate in exactly one of
\* verified, contested and rejected: one with contradicting agents is
\* contested from confidence 0.6 on and rejected below, one without is
\* verified from 0.7 on, contested from 0.4 to below 0.7 and rejected
\* below; so the emission of a verified candidate carries no contradiction.
C38_TriageByConfidence ==
    (call.fn = "_categorize_by_confidence" /\ ret # NoRet) =>
        LET of(list) == SelectSeq(call.candidates, LAMBDA c : TriageOf(c) = list)
        IN  /\ ret.value.verified = of("verified")
            /\ ret.value.contested = of("contested")
            /\ ret.value.rejected = of("rejected")
            /\ Len(ret.value.verified) + Len(ret.value.contested)
                   + Len(ret.value.rejected) = Len(call.candidates)
            /\ \A k \in DOMAIN ret.value.verified :
                   _create_emission(ret.value.verified[k], [title |-> "Acme"],
                                    "verified").value.contradictions = <<>>

\* a contradicted candidate of confidence 0.6 is contested, an
\* uncontradicted one of confidence 0.7 is verified
C38_Witness ==
    /\ call.fn = "_categorize_by_confidence"
    /\ ret # NoRet
    /\ Len(call.candidates) = 2
    /\ "contradicting_agents" \in DOMAIN call.candidates[1]
    /\ call.candidates[1].contradicting_agents.a # <<>>
    /\ call.candidates[1].confidence.n = 60
    /\ "contradicting_agents" \notin DOMAIN call.candidates[2]
    /\ call.candidates[2].confidence.n = 70
    /\ ret.value.contested = <<call.candidates[1]>>
    /\ ret.value.verified = <<call.candidates[2]>>

\* the emissions of the candidates of a curate call that triage verifies
\* (confidence 0.7 and more, no contradicting agent), in input order
VerifiedOf(raw_candidates, program) ==
    LET verified == SelectSeq(raw_candidates.a,
                              LAMBDA c : /\ c.confidence.n >= 70
                                         /\ "contradicting_agents" \notin DOMAIN c)
    IN  [k \in DOMAIN verified |->
            _create_emission(verified[k], program, "verified").value]

\* C39: the fallback top-up runs exactly when fewer than five candidates
\* were triaged as verified: then every fallback emission is appended
\* unless an emission of the verified list has its summary, and no two
\* emissions of the result have the same summary; with five or more
\* verified candidates the verified list holds their emissions only.
C39_TopUpBelowFive ==
    (call.fn = "curate" /\ ret # NoRet) =>
        LET derived == VerifiedOf(call.raw_candidates, call.program)
            fallback == _generate_fallback_emissions(call.program)
            fresh(fb) == \A k \in DOMAIN derived : derived[k].summary # fb.summary
            emissions == ret.value.emissions
        IN  /\ ret.raised = None
            /\ Len(derived) < 5 =>
                   /\ emissions = derived \o SelectSeq(fallback, fresh)
                   /\ \A k, l \in DOMAIN emissions :
                          emissions[k].summary = emissions[l].summary => k = l
            /\ Len(derived) >= 5 => emissions = derived

\* four verified candidates, the first with the summary of the resource
\* fallback: the other four fallback emissions of the default program follow
C39_Witness ==
    /\ call.fn = "curate"
    /\ ret # NoRet
    /\ Len(call.program.workstreams) = 3
    /\ Len(VerifiedOf(call.raw_candidates, call.program)) = 4
    /\ ret.value.emissions[1].summary = Lit("Resource sizing guidelines")
    /\ ret.value.emissions[1].content = <<[c |-> "a", n |-> 1]>>
    /\ Len(ret.value.emissions) = 8
    /\ \A k \in 5..8 : ret.value.emissions[k].summary # Lit("Resource sizing guidelines")

\* the memory layer that goes with a knowledge type
LayerOf(type) ==
    CASE type = "fact" -> "semantic"
      [] type \in {"lesson_learned", "decision_rationale"} -> "episodic"
      [] OTHER -> "symbolic"

\* C40: every emission of a returned ledger, the emission of a candidate
\* as well as a fallback emission, has the suggested_memory_layer that goes
\* with its type, and its verification_status is verified in the emissions
\* list, contested in the contested list and hypothesis in the rejected
\* list.
C40_LayerAndStatus ==
    Curated =>
        LET ledger == ret.value
            listed(list, status) ==
                \A k \in DOMAIN list :
                    /\ list[k].suggested_memory_layer = LayerOf(list[k].type)
                    /\ list[k].verification_status = status
        IN  /\ listed(ledger.emissions, "verified")
            /\ listed(ledger.contested, "contested")
            /\ listed(ledger.rejected, "hypothesis")

====
